---- MODULE Spec2Model ----
(***************************************************************************)
(* Haxball statistics engine: the room script that runs in the page        *)
(* (haxball.mjs, gameState and the room.on* handlers), the node-side       *)
(* HaxballStatsTracker and the SQLite-backed StatsDatabase.                *)
(*                                                                         *)
(* A page handler and the tracker handler it calls through the exposed     *)
(* window.statsOn* function are one action: the calls are delivered in     *)
(* order and every tracker handler is synchronous, and the administrative  *)
(* operations read no page state, so every asynchronous delivery has the   *)
(* same effect on the store as a synchronous one.                          *)
(***************************************************************************)
EXTENDS Integers, Sequences, FiniteSets, TLC

(***************************************************************************)
(* Bounds of the model.                                                    *)
(***************************************************************************)
MaxStarts == 1
MaxGoals == 1
MaxAdminOps == 1
MaxTouchStarts == 1
MaxTouchGoals == 1
MaxAdvances == 2
MaxSeasonStarts == 3
MaxSeasonGoals == 2
MaxRestoreOps == 2
MaxServerOps == 1
MaxOfflineOps == 2
MaxRematchStarts == 2
MaxRunGoals == 2
MaxRankGoals == 2
MaxRankGames == 2
MaxRankQueries == 1
MaxChats == 1

(***************************************************************************)
(* Program constants.                                                      *)
(***************************************************************************)
ASSIST_TIME_WINDOW == 3000
TOUCH_DEBOUNCE == 50
PLAYER_RADIUS == 15
BALL_RADIUS == 10
MAX_TOUCHES == 5

Null == [null |-> TRUE]

(***************************************************************************)
(* The cast: the connections that may join the room. player.id is unique   *)
(* per connection, player.auth is the person's public key (the empty       *)
(* string stands for a null auth). Connections 1 and 2 are the same person *)
(* in two tabs.                                                            *)
(***************************************************************************)
Ids == {1, 2, 3, 4}
NoAuth == ""
Auths == {"a1", "a2"}
Teams == {1, 2}

AuthOf(id) ==
    CASE id = 1 -> "a1"
      [] id = 2 -> "a1"
      [] id = 3 -> "a2"
      [] OTHER -> NoAuth

\* Display names are sequences of characters.
NameOf(id) ==
    CASE id = 1 -> <<"B", "o">>
      [] id = 2 -> <<"b", "o">>
      [] id = 3 -> <<"x", "y", "z", "T", "e", "s", "t">>
      [] OTHER -> <<"A", "l">>

\* Names an administrator may ask to delete.
QueryNames == {<<"B", "O">>, <<"A", "l">>}

\* Clock steps (ms): on both sides of the debounce and of the assist window.
ClockSteps == {TOUCH_DEBOUNCE, ASSIST_TIME_WINDOW}

\* getPlayerDiscProperties() of a player without a disc; the ball's positions.
NoDisc == Null
BallPositions == {[x |-> 0, y |-> 0]}

VARIABLES
    room,           \* the Haxball room: per connection st ("new","in","left") and team
    liveScores,     \* what room.getScores() returns: Null or [red, blue]
    clock,          \* Date.now()
    gameState,      \* the page's gameState object
    currentMatch,   \* HaxballStatsTracker.currentMatch
    players,        \* table players: auth -> row or Null
    matches,        \* table matches: sequence of rows
    match_players,  \* table match_players: sequence of rows
    seqMatches,     \* AUTOINCREMENT counter of matches
    backups,        \* the backups directory: set of [ts, safety, content]
    adminOp,        \* the administrative operation awaiting its backup, or Null
    adminResult,    \* what the last administrative operation reported
    attribution,    \* what the last event, if a goal, attributed: team, scorer,
                    \* assister, own-goal flag; Null after any other event
    nStarts,        \* number of game starts so far
    nAdvances,      \* number of clock steps so far
    nAdminOps,      \* number of administrative operations requested so far
    stopsSinceStart,\* Stop events since the last Start, counted up to 2
    terminalResult, \* the scores onTeamVictory was last called with in the game
                    \* started last, and whether a goal event has followed it
    state,          \* haxball.mjs state: status, page and statsTracker (set or not)
    wsPath,         \* whether process.env.WS_PATH is set
    startPc,        \* where the pending start() call stands, "idle" if none
    stopPc,         \* where the pending stop() call stands, "idle" if none
    tracker,        \* whether getStatsTracker() returns a tracker
    dbOpen,         \* whether that tracker's database connection is open
    schema,         \* the store file's schema: version row and migration-1
                    \* statements applied
    roomOpen,       \* the page runs the room script and delivers its events
    httpResult,     \* the response to the last POST /restore-backup, or Null
    queryResult     \* the last chat command answered: its count, text and
                    \* reply and the store it read, or Null

vars == <<room, liveScores, clock, gameState, currentMatch, players, matches,
          match_players, seqMatches, backups, adminOp, adminResult, attribution,
          nStarts, nAdvances, nAdminOps, stopsSinceStart, terminalResult,
          state, wsPath, startPc, stopPc, tracker, dbOpen, schema, roomOpen,
          httpResult,
         queryResult>>

storeVars == <<players, matches, match_players, seqMatches>>
adminVars == <<backups, adminOp, adminResult, nAdminOps>>
hostVars == <<state, wsPath, startPc, stopPc, tracker, dbOpen, schema, roomOpen,
              httpResult, queryResult>>

\* The store file's content.
Store ==
    [players |-> players, matches |-> matches,
     match_players |-> match_players, seq |-> seqMatches]

(***************************************************************************)
(* Helpers.                                                                *)
(***************************************************************************)
Min(S) == CHOOSE x \in S : \A y \in S : x <= y

RECURSIVE SeqOfIds(_)
SeqOfIds(S) == IF S = {} THEN <<>> ELSE <<Min(S)>> \o SeqOfIds(S \ {Min(S)})

Last(s) == s[Len(s)]

EmptyStats == [f \in {} |-> 0]

UpperLetters == <<"A", "B", "E", "L", "O", "S", "T", "X", "Y", "Z">>
LowerLetters == <<"a", "b", "e", "l", "o", "s", "t", "x", "y", "z">>

\* SQL LOWER() on one ASCII character.
LowerChar(c) ==
    IF \E i \in 1..Len(UpperLetters) : UpperLetters[i] = c
    THEN LowerLetters[CHOOSE i \in 1..Len(UpperLetters) : UpperLetters[i] = c]
    ELSE c

Lower(name) == [i \in 1..Len(name) |-> LowerChar(name[i])]

\* name LIKE '___test%': each _ matches any one character, % any rest,
\* and LIKE ignores ASCII case.
LikeTestPattern(name) ==
    /\ Len(name) >= 7
    /\ Lower(SubSeq(name, 4, 7)) = <<"t", "e", "s", "t">>

(***************************************************************************)
(* StatsDatabase: rows and statements. A store is the record Store.        *)
(* last_seen is left out: nothing reads it.                                *)
(***************************************************************************)
NewPlayerRow(name) ==
    [name |-> name, goals |-> 0, assists |-> 0, own_goals |-> 0, games |-> 0,
     wins |-> 0, losses |-> 0, draws |-> 0, clean_sheets |-> 0,
     minutes_played |-> 0, current_streak |-> 0, best_streak |-> 0]

EmptyStore ==
    [players |-> [a \in Auths |-> Null], matches |-> <<>>,
     match_players |-> <<>>, seq |-> 0]

getPlayer(tbl, auth) == tbl[auth]

\* INSERT ... ON CONFLICT(auth) DO UPDATE SET name = excluded.name
upsertPlayer(tbl, auth, name) ==
    IF tbl[auth] = Null
    THEN [tbl EXCEPT ![auth] = NewPlayerRow(name)]
    ELSE [tbl EXCEPT ![auth].name = name]

\* The SET list of updatePlayerStats: streak fields are overwritten, every
\* other field is added to.
ApplyStats(row, stats) ==
    [f \in DOMAIN row |->
        IF f \in DOMAIN stats
        THEN (IF f \in {"current_streak", "best_streak"}
              THEN stats[f]
              ELSE row[f] + stats[f])
        ELSE row[f]]

updatePlayerStats(tbl, auth, stats) ==
    IF getPlayer(tbl, auth) = Null THEN tbl
    ELSE IF DOMAIN stats = {} THEN tbl
    ELSE [tbl EXCEPT ![auth] = ApplyStats(@, stats)]

\* The foreign key match_players.player_auth -> players.auth.
ForeignKeysHold(tbl, rows) ==
    \A i \in 1..Len(rows) : tbl[rows[i].auth] # Null

MatchPlayerRows(matchId, rows) ==
    [i \in 1..Len(rows) |->
        [match_id |-> matchId, player_auth |-> rows[i].auth, team |-> rows[i].team,
         goals |-> rows[i].goals, assists |-> rows[i].assists]]

\* saveMatch: one transaction; a failing insert rolls all of it back and throws.
saveMatch(st, matchData, now) ==
    IF ForeignKeysHold(st.players, matchData.players)
    THEN [threw |-> FALSE,
          store |-> [st EXCEPT
              !.matches = Append(@, [id |-> st.seq + 1,
                                     timestamp |-> now \div 1000,
                                     score_red |-> matchData.scoreRed,
                                     score_blue |-> matchData.scoreBlue,
                                     duration |-> matchData.duration]),
              !.match_players = @ \o MatchPlayerRows(st.seq + 1, matchData.players),
              !.seq = @ + 1]]
    ELSE [threw |-> TRUE, store |-> st]

(***************************************************************************)
(* HaxballStatsTracker. playerStats[auth].startTime is left out: it equals *)
(* currentMatch.startTime and nothing reads it.                            *)
(***************************************************************************)
handlePlayerJoin(tbl, auth, name) == upsertPlayer(tbl, auth, name)

handleGameStart(plist, now) ==
    [startTime |-> now,
     players |-> plist,
     playerStats |-> [a \in Auths |->
         IF \E i \in 1..Len(plist) : plist[i].auth = a
         THEN [goals |-> 0, assists |-> 0]
         ELSE Null]]

\* Mutant: an own goal is counted as a regular goal.
IsOwnGoal_Never(scorer, team) == FALSE

\* scorer.team !== team
IsOwnGoal(scorer, team) == scorer.team # team

\* Returns the players table and currentMatch after the goal.
handleTeamGoal(tbl, cm, team, scorer, assister) ==
    IF cm = Null THEN [players |-> tbl, cm |-> cm]
    ELSE IF scorer = Null THEN [players |-> tbl, cm |-> cm]
    ELSE
      LET own == IsOwnGoal(scorer, team)
          tbl1 == IF own THEN updatePlayerStats(tbl, scorer.auth, [own_goals |-> 1])
                  ELSE tbl
          cm1 == IF ~own /\ cm.playerStats[scorer.auth] # Null
                 THEN [cm EXCEPT !.playerStats[scorer.auth].goals = @ + 1]
                 ELSE cm
          cm2 == IF assister # Null /\ ~assister.isSelf
                    /\ cm1.playerStats[assister.auth] # Null
                 THEN [cm1 EXCEPT !.playerStats[assister.auth].assists = @ + 1]
                 ELSE cm1
      IN [players |-> tbl1, cm |-> cm2]

Outcomes(scoreRed, scoreBlue) ==
    IF scoreRed > scoreBlue THEN [red |-> "win", blue |-> "loss"]
    ELSE IF scoreBlue > scoreRed THEN [red |-> "loss", blue |-> "win"]
    ELSE [red |-> "draw", blue |-> "draw"]

\* const redCleanSheet = scoreBlue === 0 && redOutcome === 'win'
CleanSheet(opponentScore, outcome) == opponentScore = 0 /\ outcome = "win"

\* Mutant: a win raises the current streak and leaves the best streak.
MatchUpdates_BestNotRaised(player, matchStats, outcome, cleanSheet, duration) ==
    LET base == [games |-> 1, goals |-> matchStats.goals,
                 assists |-> matchStats.assists,
                 minutes_played |-> duration \div 60]
        result ==
            IF outcome = "win"
            THEN [wins |-> 1, current_streak |-> player.current_streak + 1]
            ELSE IF outcome = "loss"
            THEN [losses |-> 1, current_streak |-> 0]
            ELSE [draws |-> 1, current_streak |-> 0]
        clean == IF cleanSheet THEN [clean_sheets |-> 1] ELSE EmptyStats
    IN base @@ result @@ clean

\* Mutant: a draw resets the streak but is not counted.
MatchUpdates_DrawNotCounted(player, matchStats, outcome, cleanSheet, duration) ==
    LET base == [games |-> 1, goals |-> matchStats.goals,
                 assists |-> matchStats.assists,
                 minutes_played |-> duration \div 60]
        newStreak == player.current_streak + 1
        result ==
            IF outcome = "win"
            THEN [wins |-> 1, current_streak |-> newStreak]
                 @@ (IF newStreak > player.best_streak
                     THEN [best_streak |-> newStreak] ELSE EmptyStats)
            ELSE IF outcome = "loss"
            THEN [losses |-> 1, current_streak |-> 0]
            ELSE [current_streak |-> 0]
        clean == IF cleanSheet THEN [clean_sheets |-> 1] ELSE EmptyStats
    IN base @@ result @@ clean

\* The updates object updatePlayerMatchStats builds for one participant.
MatchUpdates(player, matchStats, outcome, cleanSheet, duration) ==
    LET base == [games |-> 1, goals |-> matchStats.goals,
                 assists |-> matchStats.assists,
                 minutes_played |-> duration \div 60]
        newStreak == player.current_streak + 1
        result ==
            IF outcome = "win"
            THEN [wins |-> 1, current_streak |-> newStreak]
                 @@ (IF newStreak > player.best_streak
                     THEN [best_streak |-> newStreak] ELSE EmptyStats)
            ELSE IF outcome = "loss"
            THEN [losses |-> 1, current_streak |-> 0]
            ELSE [draws |-> 1, current_streak |-> 0]
        clean == IF cleanSheet THEN [clean_sheets |-> 1] ELSE EmptyStats
    IN base @@ result @@ clean

MatchStatsOf(cm, auth) ==
    IF cm.playerStats[auth] # Null THEN cm.playerStats[auth]
    ELSE [goals |-> 0, assists |-> 0]

updatePlayerMatchStats(tbl, cm, playerAuth, outcome, cleanSheet, duration) ==
    LET player == getPlayer(tbl, playerAuth)
    IN IF player = Null THEN tbl
       ELSE updatePlayerStats(tbl, playerAuth,
                MatchUpdates(player, MatchStatsOf(cm, playerAuth), outcome,
                             cleanSheet, duration))

\* for (const player of list) updatePlayerMatchStats(player.auth, ...)
RECURSIVE UpdateTeam(_, _, _, _, _, _)
UpdateTeam(tbl, cm, list, outcome, cleanSheet, duration) ==
    IF list = <<>> THEN tbl
    ELSE UpdateTeam(
            updatePlayerMatchStats(tbl, cm, Head(list).auth, outcome, cleanSheet,
                                   duration),
            cm, Tail(list), outcome, cleanSheet, duration)

MatchPlayersOf(cm, list, team) ==
    [i \in 1..Len(list) |->
        [auth |-> list[i].auth, team |-> team,
         goals |-> MatchStatsOf(cm, list[i].auth).goals,
         assists |-> MatchStatsOf(cm, list[i].auth).assists]]

\* Returns the store and currentMatch after the stop, and whether it threw.
\* The player updates are statements of their own, outside saveMatch's
\* transaction; when saveMatch throws, currentMatch is not reset.
handleGameStop(st, cm, matchResult, now) ==
    IF cm = Null THEN [store |-> st, cm |-> cm, threw |-> FALSE]
    ELSE
      LET duration == (now - cm.startTime) \div 1000
          out == Outcomes(matchResult.scoreRed, matchResult.scoreBlue)
          redCleanSheet == CleanSheet(matchResult.scoreBlue, out.red)
          blueCleanSheet == CleanSheet(matchResult.scoreRed, out.blue)
          tbl1 == UpdateTeam(st.players, cm, matchResult.redPlayers, out.red,
                             redCleanSheet, duration)
          tbl2 == UpdateTeam(tbl1, cm, matchResult.bluePlayers, out.blue,
                             blueCleanSheet, duration)
          matchPlayers == MatchPlayersOf(cm, matchResult.redPlayers, 1)
                          \o MatchPlayersOf(cm, matchResult.bluePlayers, 2)
          saved == saveMatch([st EXCEPT !.players = tbl2],
                             [scoreRed |-> matchResult.scoreRed,
                              scoreBlue |-> matchResult.scoreBlue,
                              duration |-> duration,
                              players |-> matchPlayers], now)
      IN IF saved.threw
         THEN [store |-> saved.store, cm |-> cm, threw |-> TRUE]
         ELSE [store |-> saved.store, cm |-> Null, threw |-> FALSE]

(***************************************************************************)
(* The room script (page side). rm is the room's player table.             *)
(***************************************************************************)
\* room.getPlayerList(), in id order.
PlayerList(rm) == SeqOfIds({id \in Ids : rm[id].st = "in"})

InitialGameState ==
    [isGameRunning |-> FALSE,
     lastTouches |-> <<>>,
     matchGoals |-> [a \in Auths |-> Null],
     playerAuthMap |-> [id \in Ids |-> Null],
     finalScores |-> Null]

onPlayerJoin(gs, id) ==
    IF AuthOf(id) # NoAuth
    THEN [gs EXCEPT !.playerAuthMap[id] = [auth |-> AuthOf(id), name |-> NameOf(id)]]
    ELSE gs

onPlayerLeave(gs, id) == [gs EXCEPT !.playerAuthMap[id] = Null]

\* allPlayers.filter(p => p.team === t && playerAuthMap[p.id]), t a set of teams
TrackedIds(gs, rm, teams) ==
    SeqOfIds({id \in Ids : /\ rm[id].st = "in"
                           /\ rm[id].team \in teams
                           /\ gs.playerAuthMap[id] # Null})

\* The players handed to statsOnGameStart.
StartPlayers(gs, rm) ==
    LET ids == TrackedIds(gs, rm, Teams)
    IN [i \in 1..Len(ids) |->
           [auth |-> gs.playerAuthMap[ids[i]].auth, name |-> NameOf(ids[i]),
            team |-> rm[ids[i]].team]]

\* players.forEach(p => matchGoals[p.auth] = {...}): a later entry of the
\* same auth overwrites an earlier one.
InitialMatchGoals(plist) ==
    [a \in Auths |->
        IF \E i \in 1..Len(plist) : plist[i].auth = a
        THEN LET k == CHOOSE i \in 1..Len(plist) :
                        /\ plist[i].auth = a
                        /\ \A j \in 1..Len(plist) : plist[j].auth = a => j <= i
             IN [name |-> plist[k].name, team |-> plist[k].team,
                 goals |-> 0, assists |-> 0]
        ELSE Null]

\* Mutant: the touches of the match before stay in the history.
onGameStart_KeepsTouches(gs, rm) ==
    LET plist == StartPlayers(gs, rm)
    IN [gs |-> [gs EXCEPT !.isGameRunning = TRUE,
                          !.matchGoals = InitialMatchGoals(plist),
                          !.finalScores = Null],
        call |-> plist]

onGameStart(gs, rm) ==
    LET plist == StartPlayers(gs, rm)
    IN [gs |-> [gs EXCEPT !.isGameRunning = TRUE,
                          !.lastTouches = <<>>,
                          !.matchGoals = InitialMatchGoals(plist),
                          !.finalScores = Null],
        call |-> plist]

\* Mutant: the sides are those recorded at the start of the match.
TeamPlayers_AtStart(gs, rm, team) ==
    LET ids == SeqOfIds({id \in Ids :
                   /\ rm[id].st = "in"
                   /\ rm[id].team \in Teams
                   /\ gs.playerAuthMap[id] # Null
                   /\ gs.matchGoals[gs.playerAuthMap[id].auth] # Null
                   /\ gs.matchGoals[gs.playerAuthMap[id].auth].team = team})
    IN [i \in 1..Len(ids) |->
           [auth |-> gs.playerAuthMap[ids[i]].auth, name |-> NameOf(ids[i])]]

\* redPlayers / bluePlayers of onGameStop.
TeamPlayers(gs, rm, team) ==
    LET ids == TrackedIds(gs, rm, {team})
    IN [i \in 1..Len(ids) |->
           [auth |-> gs.playerAuthMap[ids[i]].auth, name |-> NameOf(ids[i])]]

\* Mutant: a missing score defaults to 0-0.
ResolveScores_DefaultZero(finalScores, live) ==
    IF finalScores # Null THEN finalScores
    ELSE IF live # Null THEN live
    ELSE [red |-> 0, blue |-> 0]

\* let scores = gameState.finalScores || room.getScores()
ResolveScores(finalScores, live) ==
    IF finalScores # Null THEN finalScores ELSE live

\* Mutant: the isGameRunning guard is missing.
onGameStop_NoRunningGuard(gs, rm, live) ==
    LET gs1 == [gs EXCEPT !.isGameRunning = FALSE]
        scores == ResolveScores(gs.finalScores, live)
    IN IF scores = Null THEN [gs |-> gs1, call |-> Null]
       ELSE [gs |-> gs1,
             call |-> [scoreRed |-> scores.red, scoreBlue |-> scores.blue,
                       redPlayers |-> TeamPlayers(gs, rm, 1),
                       bluePlayers |-> TeamPlayers(gs, rm, 2)]]

\* call is the argument of statsOnGameStop, or Null when it is not called.
onGameStop(gs, rm, live) ==
    IF ~gs.isGameRunning THEN [gs |-> gs, call |-> Null]
    ELSE
      LET gs1 == [gs EXCEPT !.isGameRunning = FALSE]
          scores == ResolveScores(gs.finalScores, live)
      IN IF scores = Null THEN [gs |-> gs1, call |-> Null]
         ELSE [gs |-> gs1,
               call |-> [scoreRed |-> scores.red, scoreBlue |-> scores.blue,
                         redPlayers |-> TeamPlayers(gs, rm, 1),
                         bluePlayers |-> TeamPlayers(gs, rm, 2)]]

\* Mutant: a goal without a touch is credited to a fixed player.
Scorer_DefaultPlayer(lastTouches) ==
    IF Len(lastTouches) > 0
    THEN LET lastTouch == Last(lastTouches)
         IN [auth |-> lastTouch.playerAuth, name |-> lastTouch.playerName,
             team |-> lastTouch.playerTeam]
    ELSE [auth |-> AuthOf(1), name |-> NameOf(1), team |-> 1]

\* Mutant: the oldest touch instead of the newest.
Scorer_FirstTouch(lastTouches) ==
    IF Len(lastTouches) > 0
    THEN LET lastTouch == Head(lastTouches)
         IN [auth |-> lastTouch.playerAuth, name |-> lastTouch.playerName,
             team |-> lastTouch.playerTeam]
    ELSE Null

\* The scorer of onTeamGoal: the last touch, or Null.
Scorer(lastTouches) ==
    IF Len(lastTouches) > 0
    THEN LET lastTouch == Last(lastTouches)
         IN [auth |-> lastTouch.playerAuth, name |-> lastTouch.playerName,
             team |-> lastTouch.playerTeam]
    ELSE Null

\* Mutant: the window is measured between the two touches.
AssistValid_BetweenTouches(secondLastTouch, lastTouch, now) ==
    /\ lastTouch.timestamp - secondLastTouch.timestamp <= ASSIST_TIME_WINDOW
    /\ secondLastTouch.playerId # lastTouch.playerId
    /\ secondLastTouch.playerTeam = lastTouch.playerTeam

\* timeDiff <= ASSIST_TIME_WINDOW && !isSamePlayer && isSameTeam, with
\* timeDiff = now - secondLastTouch.timestamp
AssistValid(secondLastTouch, lastTouch, now) ==
    /\ now - secondLastTouch.timestamp <= ASSIST_TIME_WINDOW
    /\ secondLastTouch.playerId # lastTouch.playerId
    /\ secondLastTouch.playerTeam = lastTouch.playerTeam

\* The assister of onTeamGoal, or Null.
Assister(lastTouches, now) ==
    IF Len(lastTouches) > 1
       /\ AssistValid(lastTouches[Len(lastTouches) - 1], Last(lastTouches), now)
    THEN LET secondLastTouch == lastTouches[Len(lastTouches) - 1]
         IN [auth |-> secondLastTouch.playerAuth, name |-> secondLastTouch.playerName,
             isSelf |-> FALSE]
    ELSE Null

\* const isOwnGoal = scorer && scorer.team !== team
PageIsOwnGoal(scorer, team) == scorer # Null /\ scorer.team # team

\* Mutant: a goal empties the touch history.
onTeamGoal_ClearsTouches(gs, team, live, now) ==
    LET scorer == Scorer(gs.lastTouches)
        assister == Assister(gs.lastTouches, now)
    IN [gs |-> [gs EXCEPT !.lastTouches = <<>>,
                          !.finalScores = IF live # Null THEN live ELSE @],
        call |-> [team |-> team, scorer |-> scorer, assister |-> assister],
        ownGoal |-> PageIsOwnGoal(scorer, team)]

\* live is room.getScores() at the goal; call is the argument list of
\* statsOnTeamGoal; ownGoal tells which announcement is sent.
onTeamGoal(gs, team, live, now) ==
    LET scorer == Scorer(gs.lastTouches)
        assister == Assister(gs.lastTouches, now)
        mg1 == IF scorer # Null /\ ~PageIsOwnGoal(scorer, team)
                  /\ gs.matchGoals[scorer.auth] # Null
               THEN [gs.matchGoals EXCEPT ![scorer.auth].goals = @ + 1]
               ELSE gs.matchGoals
        mg2 == IF assister # Null /\ ~assister.isSelf /\ mg1[assister.auth] # Null
               THEN [mg1 EXCEPT ![assister.auth].assists = @ + 1]
               ELSE mg1
    IN [gs |-> [gs EXCEPT !.matchGoals = mg2,
                          !.finalScores = IF live # Null THEN live ELSE @],
        call |-> [team |-> team, scorer |-> scorer, assister |-> assister],
        ownGoal |-> PageIsOwnGoal(scorer, team)]

onTeamVictory(gs, scores) == [gs EXCEPT !.finalScores = scores]

\* distance < touchRadius, with distance = sqrt(dx*dx + dy*dy) and
\* touchRadius = 15 + 10
IsTouching(disc, ball) ==
    LET dx == disc.x - ball.x
        dy == disc.y - ball.y
        touchRadius == PLAYER_RADIUS + BALL_RADIUS
    IN dx * dx + dy * dy < touchRadius * touchRadius

\* The players the loop of onGameTick does not skip and finds touching.
TouchingIds(gs, rm, ball, discs) ==
    {id \in Ids : /\ rm[id].st = "in"
                  /\ rm[id].team # 0
                  /\ gs.playerAuthMap[id] # Null
                  /\ discs[id] # NoDisc
                  /\ IsTouching(discs[id], ball)}

\* Mutant: every sample of a touching player is recorded.
ShouldRecord_NoDebounce(lastTouches, id, now) == TRUE

\* !lastTouch || lastTouch.playerId !== player.id
\*            || Date.now() - lastTouch.timestamp > 50
ShouldRecord(lastTouches, id, now) ==
    \/ Len(lastTouches) = 0
    \/ Last(lastTouches).playerId # id
    \/ now - Last(lastTouches).timestamp > TOUCH_DEBOUNCE

\* Mutant: nothing is evicted.
PushTouch_NoEviction(lastTouches, touch) == Append(lastTouches, touch)

\* push, then one shift when more than 5 are held.
PushTouch(lastTouches, touch) ==
    LET pushed == Append(lastTouches, touch)
    IN IF Len(pushed) > MAX_TOUCHES THEN Tail(pushed) ELSE pushed

onGameTick(gs, rm, ball, discs, now) ==
    IF ~gs.isGameRunning THEN gs
    ELSE
      LET touching == TouchingIds(gs, rm, ball, discs)
      IN IF touching = {} THEN gs
         ELSE LET id == Min(touching)
              IN IF ShouldRecord(gs.lastTouches, id, now)
                 THEN [gs EXCEPT !.lastTouches = PushTouch(@,
                          [playerId |-> id,
                           playerAuth |-> gs.playerAuthMap[id].auth,
                           playerName |-> NameOf(id),
                           playerTeam |-> rm[id].team,
                           timestamp |-> now])]
                 ELSE gs

(***************************************************************************)
(* StatsDatabase: the destructive operations. backupOk tells whether the   *)
(* awaited createBackup() resolved (TRUE) or threw (FALSE). Each returns   *)
(* whether it threw, the store afterwards and the value it resolved to.    *)
(***************************************************************************)
\* db.backup() to backups/stats_backup_<now>.db; a file of that name is replaced.
WriteBackup(bks, now, safety, content) ==
    {b \in bks : ~(b.ts = now /\ b.safety = safety)}
        \cup {[ts |-> now, safety |-> safety, content |-> content]}

\* Mutant: the backup's failure is caught and the clear goes on.
clearStats_IgnoreBackupFailure(st, backupOk) ==
    [threw |-> FALSE,
     store |-> [st EXCEPT !.match_players = <<>>,
                          !.matches = <<>>,
                          !.players = [a \in Auths |-> Null]],
     value |-> Null]

clearStats(st, backupOk) ==
    IF ~backupOk THEN [threw |-> TRUE, store |-> st, value |-> Null]
    ELSE [threw |-> FALSE,
          store |-> [st EXCEPT !.match_players = <<>>,
                               !.matches = <<>>,
                               !.players = [a \in Auths |-> Null]],
          value |-> Null]

\* Matches with no remaining row of a player whose name is NOT LIKE the
\* pattern; ON DELETE CASCADE removes the rows of a deleted match.
MatchHasRealPlayer(tbl, rows, m) ==
    \E i \in 1..Len(rows) :
        /\ rows[i].match_id = m.id
        /\ tbl[rows[i].player_auth] # Null
        /\ ~LikeTestPattern(tbl[rows[i].player_auth].name)

deleteTestPlayers(st, backupOk) ==
    IF ~backupOk THEN [threw |-> TRUE, store |-> st, value |-> Null]
    ELSE
      LET testAuths == {a \in Auths : st.players[a] # Null
                                      /\ LikeTestPattern(st.players[a].name)}
          rows1 == SelectSeq(st.match_players,
                             LAMBDA r : r.player_auth \notin testAuths)
          kept == SelectSeq(st.matches,
                            LAMBDA m : MatchHasRealPlayer(st.players, rows1, m))
          rows2 == SelectSeq(rows1,
                             LAMBDA r : \E i \in 1..Len(kept) : kept[i].id = r.match_id)
      IN IF testAuths = {}
         THEN [threw |-> FALSE, store |-> st, value |-> [count |-> 0]]
         ELSE [threw |-> FALSE,
               store |-> [st EXCEPT
                   !.match_players = rows2,
                   !.matches = kept,
                   !.players = [a \in Auths |->
                                   IF a \in testAuths THEN Null ELSE st.players[a]]],
               value |-> [count |-> Cardinality(testAuths)]]

\* SELECT auth FROM players WHERE LOWER(name) = LOWER(?)
AuthsNamed(tbl, playerName) ==
    {a \in Auths : tbl[a] # Null /\ Lower(tbl[a].name) = Lower(playerName)}

\* Mutant: the player row is deleted and the performance rows are left.
deletePlayerStats_KeepsRows(st, playerName, backupOk) ==
    IF ~backupOk THEN [threw |-> TRUE, store |-> st, value |-> Null]
    ELSE
      LET found == AuthsNamed(st.players, playerName)
          playerAuth == CHOOSE a \in found : TRUE
      IN IF found = {}
         THEN [threw |-> FALSE, store |-> st, value |-> Null]
         ELSE [threw |-> FALSE,
               store |-> [st EXCEPT !.players = [@ EXCEPT ![playerAuth] = Null]],
               value |-> [name |-> playerName]]

deletePlayerStats(st, playerName, backupOk) ==
    IF ~backupOk THEN [threw |-> TRUE, store |-> st, value |-> Null]
    ELSE
      LET found == AuthsNamed(st.players, playerName)
          playerAuth == CHOOSE a \in found : TRUE
          rows1 == SelectSeq(st.match_players,
                             LAMBDA r : r.player_auth # playerAuth)
          kept == SelectSeq(st.matches,
                            LAMBDA m : \E i \in 1..Len(rows1) :
                                          rows1[i].match_id = m.id)
      IN IF found = {}
         THEN [threw |-> FALSE, store |-> st, value |-> Null]
         ELSE [threw |-> FALSE,
               store |-> [st EXCEPT
                   !.match_players = rows1,
                   !.matches = kept,
                   !.players = [@ EXCEPT ![playerAuth] = Null]],
               value |-> [name |-> playerName]]

\* The host after a successful start(): the store file is migrated, the
\* tracker is set and the page runs the room script.
MigratedSchema == [version |-> 1, stmts |-> 5]

HostRunning ==
    /\ state = [status |-> "running", page |-> TRUE, statsTracker |-> TRUE]
    /\ wsPath = TRUE
    /\ startPc = "idle"
    /\ stopPc = "idle"
    /\ tracker = TRUE
    /\ dbOpen = TRUE
    /\ schema = MigratedSchema
    /\ roomOpen = TRUE
    /\ httpResult = Null
    /\ queryResult = Null

(***************************************************************************)
(* The state after construction: an initialized, empty store, a running    *)
(* room with nobody in it, no game.                                        *)
(***************************************************************************)
Init ==
    /\ room = [id \in Ids |-> [st |-> "new", team |-> 0]]
    /\ liveScores = Null
    /\ clock = 0
    /\ gameState = InitialGameState
    /\ currentMatch = Null
    /\ players = EmptyStore.players
    /\ matches = EmptyStore.matches
    /\ match_players = EmptyStore.match_players
    /\ seqMatches = EmptyStore.seq
    /\ backups = {}
    /\ adminOp = Null
    /\ adminResult = Null
    /\ attribution = Null
    /\ nStarts = 0
    /\ nAdvances = 0
    /\ nAdminOps = 0
    /\ stopsSinceStart = 0
    /\ terminalResult = Null
    /\ HostRunning

SetStore(st) ==
    /\ players' = st.players
    /\ matches' = st.matches
    /\ match_players' = st.match_players
    /\ seqMatches' = st.seq

(***************************************************************************)
(* Room events.                                                            *)
(***************************************************************************)
\* room.onPlayerJoin, HaxballStatsTracker.handlePlayerJoin
PlayerJoin(id) ==
    /\ room[id].st = "new"
    /\ room' = [room EXCEPT ![id] = [st |-> "in", team |-> 0]]
    /\ gameState' = onPlayerJoin(gameState, id)
    /\ players' = IF AuthOf(id) # NoAuth
                  THEN handlePlayerJoin(players, AuthOf(id), NameOf(id))
                  ELSE players
    /\ attribution' = Null
    /\ UNCHANGED <<liveScores, clock, currentMatch, matches, match_players,
                   seqMatches, adminVars, nStarts, nAdvances, stopsSinceStart,
                   terminalResult, hostVars>>

\* room.onPlayerLeave; handlePlayerLeave only reads
PlayerLeave(id) ==
    /\ room[id].st = "in"
    /\ room' = [room EXCEPT ![id] = [st |-> "left", team |-> 0]]
    /\ gameState' = onPlayerLeave(gameState, id)
    /\ attribution' = Null
    /\ UNCHANGED <<liveScores, clock, currentMatch, storeVars, adminVars,
                   nStarts, nAdvances, stopsSinceStart,
                   terminalResult, hostVars>>

\* A player is moved to another team; the script has no handler for it.
SetTeam(id, team) ==
    /\ room[id].st = "in"
    /\ room[id].team # team
    /\ room' = [room EXCEPT ![id].team = team]
    /\ attribution' = Null
    /\ UNCHANGED <<liveScores, clock, gameState, currentMatch, storeVars,
                   adminVars, nStarts, nAdvances, stopsSinceStart,
                   terminalResult, hostVars>>

\* Date.now() advances.
AdvanceClock(d) ==
    /\ nAdvances' = nAdvances + 1
    /\ clock' = clock + d
    /\ attribution' = Null
    /\ UNCHANGED <<room, liveScores, gameState, currentMatch, storeVars,
                   adminVars, nStarts, stopsSinceStart,
                   terminalResult, hostVars>>

\* room.onGameStart, HaxballStatsTracker.handleGameStart
GameStart ==
    /\ nStarts' = nStarts + 1
    /\ liveScores' = [red |-> 0, blue |-> 0]
    /\ LET r == onGameStart(gameState, room)
       IN /\ gameState' = r.gs
          /\ currentMatch' = handleGameStart(r.call, clock)
    /\ stopsSinceStart' = 0
    /\ terminalResult' = Null
    /\ attribution' = Null
    /\ UNCHANGED <<room, clock, storeVars, adminVars, nAdvances,
                   hostVars>>

\* room.onGameTick
GameTick(ball, discs) ==
    /\ gameState' = onGameTick(gameState, room, ball, discs, clock)
    /\ attribution' = Null
    /\ UNCHANGED <<room, liveScores, clock, currentMatch, storeVars, adminVars,
                   nStarts, nAdvances, stopsSinceStart,
                   terminalResult, hostVars>>

\* room.onTeamGoal, HaxballStatsTracker.handleTeamGoal; team is the side
\* that gets the point.
TeamGoal(team) ==
    /\ liveScores # Null
    /\ liveScores' = IF team = 1 THEN [liveScores EXCEPT !.red = @ + 1]
                                 ELSE [liveScores EXCEPT !.blue = @ + 1]
    /\ LET r == onTeamGoal(gameState, team, liveScores', clock)
           h == handleTeamGoal(players, currentMatch, r.call.team, r.call.scorer,
                               r.call.assister)
       IN /\ gameState' = r.gs
          /\ attribution' = [team |-> r.call.team, scorer |-> r.call.scorer,
                             assister |-> r.call.assister, isOwnGoal |-> r.ownGoal]
          /\ players' = h.players
          /\ currentMatch' = h.cm
    /\ terminalResult' = IF terminalResult = Null THEN Null
                         ELSE [terminalResult EXCEPT !.goalAfter = TRUE]
    /\ UNCHANGED <<room, clock, matches, match_players, seqMatches, adminVars,
                   nStarts, nAdvances, stopsSinceStart,
                   hostVars>>

\* room.onTeamVictory: the room calls it with the scores when a team has won.
TeamVictory ==
    /\ liveScores # Null
    /\ liveScores.red # liveScores.blue
    /\ gameState' = onTeamVictory(gameState, liveScores)
    /\ terminalResult' = [red |-> liveScores.red, blue |-> liveScores.blue,
                          goalAfter |-> FALSE]
    /\ attribution' = Null
    /\ UNCHANGED <<room, liveScores, clock, currentMatch, storeVars, adminVars,
                   nStarts, nAdvances, stopsSinceStart,
                   hostVars>>

\* The game is over in the room: room.getScores() returns null from now on.
RoomGameEnds ==
    /\ liveScores # Null
    /\ liveScores' = Null
    /\ attribution' = Null
    /\ UNCHANGED <<room, clock, gameState, currentMatch, storeVars, adminVars,
                   nStarts, nAdvances, stopsSinceStart,
                   terminalResult, hostVars>>

\* room.onGameStop, HaxballStatsTracker.handleGameStop
GameStop ==
    /\ LET r == onGameStop(gameState, room, liveScores)
           h == IF r.call = Null
                THEN [store |-> Store, cm |-> currentMatch, threw |-> FALSE]
                ELSE handleGameStop(Store, currentMatch, r.call, clock)
       IN /\ gameState' = r.gs
          /\ SetStore(h.store)
          /\ currentMatch' = h.cm
    /\ liveScores' = Null
    /\ stopsSinceStart' = IF stopsSinceStart < 2 THEN stopsSinceStart + 1 ELSE 2
    /\ attribution' = Null
    /\ UNCHANGED <<room, clock, adminVars, nStarts, nAdvances, terminalResult, hostVars>>

(***************************************************************************)
(* Administrative operations: the call runs up to await createBackup();    *)
(* the rest runs in one piece when the backup has resolved or thrown.      *)
(***************************************************************************)
AdminCall(op, name) ==
    /\ adminOp = Null
    /\ nAdminOps' = nAdminOps + 1
    /\ adminOp' = [op |-> op, name |-> name]
    /\ attribution' = Null
    /\ UNCHANGED <<room, liveScores, clock, gameState, currentMatch, storeVars,
                   backups, adminResult, nStarts, nAdvances, stopsSinceStart,
                   terminalResult, hostVars>>

ClearStatsCall == AdminCall("clearStats", <<>>)
DeleteTestPlayersCall == AdminCall("deleteTestPlayers", <<>>)
DeletePlayerStatsCall(name) == AdminCall("deletePlayerStats", name)

AdminResume(op, r, backupOk) ==
    /\ adminOp' = Null
    /\ backups' = IF backupOk THEN WriteBackup(backups, clock, FALSE, Store)
                  ELSE backups
    /\ SetStore(r.store)
    /\ adminResult' = [op |-> op, threw |-> r.threw, value |-> r.value]
    /\ attribution' = Null
    /\ UNCHANGED <<room, liveScores, clock, gameState, currentMatch, nAdminOps,
                   nStarts, nAdvances, stopsSinceStart,
                   terminalResult, hostVars>>

ClearStatsResume(backupOk) ==
    /\ adminOp # Null
    /\ adminOp.op = "clearStats"
    /\ AdminResume(adminOp.op, clearStats(Store, backupOk), backupOk)

DeleteTestPlayersResume(backupOk) ==
    /\ adminOp # Null
    /\ adminOp.op = "deleteTestPlayers"
    /\ AdminResume(adminOp.op, deleteTestPlayers(Store, backupOk), backupOk)

DeletePlayerStatsResume(backupOk) ==
    /\ adminOp # Null
    /\ adminOp.op = "deletePlayerStats"
    /\ AdminResume(adminOp.op, deletePlayerStats(Store, adminOp.name, backupOk),
                   backupOk)

\* The file names a restore is asked for: backups/stats_backup_<ts>.db and
\* backups/stats_backup_<ts>_safety.db.
BackupNames == [ts : 0 .. 1, safety : BOOLEAN]

\* /^stats_backup_\d+\.db$/
ValidBackupName(name) == ~name.safety

BackupFile(bks, name) ==
    IF \E b \in bks : b.ts = name.ts /\ b.safety = name.safety
    THEN CHOOSE b \in bks : b.ts = name.ts /\ b.safety = name.safety
    ELSE Null

\* What the file system and the database library do during one restore:
\* whether the safety copy, the copy of the backup over the store file, the
\* re-open after the copy and the re-open in the catch block succeed.
RestoreIO == [safetyOk : BOOLEAN, copyOk : BOOLEAN, reopenOk : BOOLEAN,
              retryOk : BOOLEAN]

\* Mutant: no safety copy is taken.
SafetyCopy_Skipped(st, bks, now, io) == bks

\* The safety copy of restoreBackup: the store file is copied to
\* backups/stats_backup_<now>_safety.db; a failure is logged and nothing else.
SafetyCopy(st, bks, now, io) ==
    IF io.safetyOk THEN WriteBackup(bks, now, TRUE, st) ELSE bks

\* Mutant: the catch block does not try to re-open the store file.
ReopenAfterFailure_None(open, io) == open

\* The catch block of restoreBackup: this.db becomes a new handle when the
\* store file can be opened and stays what it was when it cannot. open tells
\* whether this.db is open when the block is entered.
ReopenAfterFailure(open, io) == open \/ io.retryOk

\* Mutant: the store file is left as it is.
restoreBackup_KeepsCurrent(st, bks, name, now, open, io) ==
    IF ~ValidBackupName(name) \/ BackupFile(bks, name) = Null
    THEN [threw |-> TRUE, store |-> st, backups |-> bks, value |-> Null,
          open |-> ReopenAfterFailure(open, io), overwrote |-> FALSE]
    ELSE [threw |-> FALSE, store |-> st,
          backups |-> SafetyCopy(st, bks, now, io),
          value |-> [restoredFrom |-> name, timestamp |-> name.ts],
          open |-> TRUE, overwrote |-> FALSE]

\* StatsDatabase.restoreBackup. open tells whether this.db is open at the
\* call. The name check and the existence check throw before this.db is
\* closed; then come the safety copy, the copy of the backup over the store
\* file and the re-open. A copy that fails is taken to fail before it has
\* written to the store file. overwrote tells whether the store file was
\* written.
restoreBackup(st, bks, name, now, open, io) ==
    IF ~ValidBackupName(name) \/ BackupFile(bks, name) = Null
    THEN [threw |-> TRUE, store |-> st, backups |-> bks, value |-> Null,
          open |-> ReopenAfterFailure(open, io), overwrote |-> FALSE]
    ELSE IF ~io.copyOk
    THEN [threw |-> TRUE, store |-> st,
          backups |-> SafetyCopy(st, bks, now, io), value |-> Null,
          open |-> ReopenAfterFailure(FALSE, io), overwrote |-> FALSE]
    ELSE IF ~io.reopenOk
    THEN [threw |-> TRUE, store |-> BackupFile(bks, name).content,
          backups |-> SafetyCopy(st, bks, now, io), value |-> Null,
          open |-> ReopenAfterFailure(FALSE, io), overwrote |-> TRUE]
    ELSE [threw |-> FALSE, store |-> BackupFile(bks, name).content,
          backups |-> SafetyCopy(st, bks, now, io),
          value |-> [restoredFrom |-> name, timestamp |-> name.ts],
          open |-> TRUE, overwrote |-> TRUE]

\* getStatsTracker(): the tracker the last completed initialisation made; it
\* is still returned after the room has been stopped.
getStatsTracker == tracker

\* Mutant: the route does not look at the status of the room.
RestoreAllowed_Always == TRUE

\* Mutant: the route answers only while the room is running.
RestoreAllowed_WhileRunning == state.status = "running"

\* The status check of POST /restore-backup.
RestoreAllowed == state.status = "stopped"

\* What the last restore request did not do when it was refused.
Refused == [code |-> 400, executed |-> FALSE, threw |-> FALSE,
            overwrote |-> FALSE, name |-> Null, io |-> Null]

\* POST /restore-backup: refused with 400 unless the room status is
\* 'stopped' and a tracker exists; the body of restoreBackup has no await,
\* so it runs in one piece. httpResult keeps the answer together with what
\* the request asked for and what the file system did.
RestoreBackup(name, io) ==
    /\ adminOp = Null
    /\ nAdminOps' = nAdminOps + 1
    /\ IF ~RestoreAllowed \/ ~getStatsTracker
       THEN /\ httpResult' = Refused
            /\ UNCHANGED <<storeVars, backups, adminResult, dbOpen>>
       ELSE LET r == restoreBackup(Store, backups, name, clock, dbOpen, io)
            IN /\ SetStore(r.store)
               /\ backups' = r.backups
               /\ dbOpen' = r.open
               /\ adminResult' = [op |-> "restoreBackup", threw |-> r.threw,
                                  value |-> r.value]
               /\ httpResult' = [code |-> IF r.threw THEN 500 ELSE 200,
                                 executed |-> TRUE, threw |-> r.threw,
                                 overwrote |-> r.overwrote, name |-> name,
                                 io |-> io]
    /\ attribution' = Null
    /\ UNCHANGED <<room, liveScores, clock, gameState, currentMatch, adminOp,
                   nStarts, nAdvances, stopsSinceStart, terminalResult,
                   state, wsPath, startPc, stopPc, tracker, schema, roomOpen,
                   queryResult>>

(***************************************************************************)
(* The host: start() and stop() of the room, and the schema migration that *)
(* the tracker runs when it is made.                                       *)
(***************************************************************************)
\* The number this code version migrates a store to, and the statements of
\* migration 1 (three CREATE TABLE, two CREATE INDEX) before its version
\* write.
SchemaVersion == 1
MigrationStatements == 5

FreshSchema == [version |-> 0, stmts |-> 0]

\* failAt: the statement of the migration that fails for an outside reason
\* (0: none; MigrationStatements + 1: the version write).
FailPoints == 0 .. MigrationStatements + 1

\* Mutant: the version is written before the statements of the migration.
initialize_VersionFirst(sch, failAt) ==
    IF sch.version >= SchemaVersion
    THEN [threw |-> FALSE, schema |-> sch, applied |-> <<>>]
    ELSE IF sch.stmts > 0
    THEN [threw |-> TRUE, schema |-> [sch EXCEPT !.version = SchemaVersion],
          applied |-> <<>>]
    ELSE IF failAt # 0
    THEN [threw |-> TRUE,
          schema |-> [version |-> SchemaVersion,
                      stmts |-> IF failAt > MigrationStatements
                                THEN MigrationStatements ELSE failAt - 1],
          applied |-> <<>>]
    ELSE [threw |-> FALSE, schema |-> MigratedSchema, applied |-> <<1>>]

\* StatsDatabase.initialize: reads the stored version (0 without a row) and,
\* when it is below 1, runs the statements of migration 1 one by one, each
\* committed on its own, and then writes version 1. The CREATE statements
\* have no IF NOT EXISTS, so the first one throws on a store a failed run
\* has left with some of them done.
initialize(sch, failAt) ==
    IF sch.version >= SchemaVersion
    THEN [threw |-> FALSE, schema |-> sch, applied |-> <<>>]
    ELSE IF sch.stmts > 0
    THEN [threw |-> TRUE, schema |-> sch, applied |-> <<>>]
    ELSE IF failAt # 0
    THEN [threw |-> TRUE,
          schema |-> [sch EXCEPT !.stmts = IF failAt > MigrationStatements
                                           THEN MigrationStatements
                                           ELSE failAt - 1],
          applied |-> <<>>]
    ELSE [threw |-> FALSE, schema |-> MigratedSchema, applied |-> <<1>>]

\* Mutant: start() goes on after a failed initialize.
AfterInitialize_Proceeds(r) == "expose"

\* start() after db.initialize(): an exception leaves the try block for the
\* catch block, which stops the room.
AfterInitialize(r) == IF r.threw THEN "abort" ELSE "expose"

\* What a host step leaves alone in the room script, the tracker and the
\* store.
HostStepKeeps ==
    /\ attribution' = Null
    /\ UNCHANGED <<clock, storeVars, backups, adminOp, adminResult, nStarts,
                   nAdvances, nAdminOps, stopsSinceStart, terminalResult,
                   wsPath, httpResult, queryResult>>

\* The first part of stop(): status 'stopping' and the tracker of the state
\* closed; the awaits on page.close() and browser.disconnect() follow.
stopBegins ==
    /\ state' = [state EXCEPT !.status = "stopping"]
    /\ dbOpen' = IF state.statsTracker THEN FALSE ELSE dbOpen
    /\ stopPc' = "closing"

\* start() up to its first await: refused unless the status is 'stopped';
\* without a browser endpoint the status becomes 'error' and start throws.
StartCall ==
    /\ startPc = "idle"
    /\ state.status = "stopped"
    /\ IF wsPath
       THEN /\ state' = [state EXCEPT !.status = "starting"]
            /\ startPc' = "connect"
       ELSE /\ state' = [state EXCEPT !.status = "error"]
            /\ UNCHANGED startPc
    /\ HostStepKeeps
    /\ UNCHANGED <<room, liveScores, gameState, currentMatch, stopPc, tracker,
                   dbOpen, schema, roomOpen>>

\* chromium.connect, newContext and newPage; the page is put in the state.
StartConnect(ok) ==
    /\ startPc = "connect"
    /\ IF ok
       THEN /\ state' = [state EXCEPT !.page = TRUE]
            /\ startPc' = "load"
       ELSE /\ startPc' = "abort"
            /\ UNCHANGED state
    /\ HostStepKeeps
    /\ UNCHANGED <<room, liveScores, gameState, currentMatch, stopPc, tracker,
                   dbOpen, schema, roomOpen>>

\* page.goto and waitForFunction, which need the page open, and then without
\* an await in between: new HaxballStatsTracker and, inside its initialize,
\* db.initialize().
StartLoad(ok, failAt) ==
    /\ startPc = "load"
    /\ ok => state.page
    /\ IF ok
       THEN LET r == initialize(schema, failAt)
            IN /\ schema' = r.schema
               /\ startPc' = AfterInitialize(r)
       ELSE /\ startPc' = "abort"
            /\ UNCHANGED schema
    /\ HostStepKeeps
    /\ UNCHANGED <<room, liveScores, gameState, currentMatch, state, stopPc,
                   tracker, dbOpen, roomOpen>>

\* The six exposeFunction calls of the tracker's initialize, then the new
\* tracker, with no match in progress and its store handle open, is put in
\* the state.
StartExpose(ok) ==
    /\ startPc = "expose"
    /\ ok => state.page
    /\ IF ok
       THEN /\ state' = [state EXCEPT !.statsTracker = TRUE]
            /\ tracker' = TRUE
            /\ dbOpen' = TRUE
            /\ currentMatch' = Null
            /\ startPc' = "room"
       ELSE /\ startPc' = "abort"
            /\ UNCHANGED <<state, tracker, dbOpen, currentMatch>>
    /\ HostStepKeeps
    /\ UNCHANGED <<room, liveScores, gameState, stopPc, schema, roomOpen>>

\* initializeRoom: returns at once without a page; otherwise the room script
\* is installed in the page with a new gameState. start() returns; the room
\* link is still to come.
StartRoom(ok) ==
    /\ startPc = "room"
    /\ ok => state.page
    /\ IF ~state.page
       THEN /\ startPc' = "idle"
            /\ UNCHANGED <<room, liveScores, gameState>>
       ELSE IF ok
       THEN /\ startPc' = "link"
            /\ room' = [id \in Ids |-> [st |-> "new", team |-> 0]]
            /\ liveScores' = Null
            /\ gameState' = InitialGameState
       ELSE /\ startPc' = "abort"
            /\ UNCHANGED <<room, liveScores, gameState>>
    /\ HostStepKeeps
    /\ UNCHANGED <<currentMatch, state, stopPc, tracker, dbOpen, schema,
                   roomOpen>>

\* room.onRoomLink calls the exposed onRoomLinkSet: status 'running'. From
\* here on players can reach the room.
RoomLinkSet ==
    /\ startPc = "link"
    /\ state.page
    /\ state' = [state EXCEPT !.status = "running"]
    /\ roomOpen' = TRUE
    /\ startPc' = "idle"
    /\ HostStepKeeps
    /\ UNCHANGED <<room, liveScores, gameState, currentMatch, stopPc, tracker,
                   dbOpen, schema>>

\* The catch block of start(): await stop(...), which returns at once when
\* the status is 'stopped'.
StartAbort ==
    /\ startPc = "abort"
    /\ startPc' = "idle"
    /\ IF state.status = "stopped" \/ stopPc # "idle"
       THEN UNCHANGED <<state, dbOpen, stopPc>>
       ELSE stopBegins
    /\ HostStepKeeps
    /\ UNCHANGED <<room, liveScores, gameState, currentMatch, tracker, schema,
                   roomOpen>>

\* stop() called by the admin route in any status but 'stopped'.
StopCall ==
    /\ stopPc = "idle"
    /\ state.status # "stopped"
    /\ stopBegins
    /\ HostStepKeeps
    /\ UNCHANGED <<room, liveScores, gameState, currentMatch, startPc, tracker,
                   schema, roomOpen>>

\* The rest of stop(): the page of the state is closed, and with it the room
\* script, its gameState and a room link still to come; the state is reset
\* to 'stopped' without page and tracker.
StopFinish ==
    /\ stopPc = "closing"
    /\ stopPc' = "idle"
    /\ state' = [status |-> "stopped", page |-> FALSE, statsTracker |-> FALSE]
    /\ IF state.page
       THEN /\ roomOpen' = FALSE
            /\ room' = [id \in Ids |-> [st |-> "new", team |-> 0]]
            /\ liveScores' = Null
            /\ gameState' = InitialGameState
            /\ startPc' = IF startPc = "link" THEN "idle" ELSE startPc
       ELSE UNCHANGED <<roomOpen, room, liveScores, gameState, startPc>>
    /\ HostStepKeeps
    /\ UNCHANGED <<currentMatch, tracker, dbOpen, schema>>

(***************************************************************************)
(* The chat commands and the queries behind them. A reply is modelled by   *)
(* the rows the format functions print.                                    *)
(***************************************************************************)
RANK_LIMIT == 10

\* The orders a set of keys can be listed in.
Listings(S) ==
    {s \in [1 .. Cardinality(S) -> S] :
        \A i, j \in 1 .. Cardinality(S) : i # j => s[i] # s[j]}

\* Mutant: of two players with equal goals the one with more games is first.
RankedBefore_MoreGamesFirst(r1, r2) ==
    \/ r1.goals > r2.goals
    \/ r1.goals = r2.goals /\ r1.games >= r2.games

\* ORDER BY goals DESC, games ASC: r1 may stand before r2.
RankedBefore(r1, r2) ==
    \/ r1.goals > r2.goals
    \/ r1.goals = r2.goals /\ r1.games <= r2.games

\* StatsDatabase.getTopPlayers: the results SELECT * FROM players ORDER BY
\* goals DESC, games ASC LIMIT ? can give; rows equal in goals and games
\* come in any order.
getTopPlayers(tbl, limit) ==
    LET present == {a \in DOMAIN tbl : tbl[a] # Null}
        sorted == {s \in Listings(present) :
                      \A i, j \in 1 .. Len(s) :
                          i < j => RankedBefore(tbl[s[i]], tbl[s[j]])}
        n == IF limit < Cardinality(present) THEN limit
             ELSE Cardinality(present)
    IN {[i \in 1 .. n |-> [auth |-> s[i], row |-> tbl[s[i]]]] : s \in sorted}

\* StatsDatabase.getPlayerByName: a row whose name equals playerName without
\* regard to case, or Null.
getPlayerByName(tbl, playerName) ==
    IF AuthsNamed(tbl, playerName) = {} THEN {Null}
    ELSE {tbl[a] : a \in AuthsNamed(tbl, playerName)}

\* StatsDatabase.getLastMatch: a match row with the latest timestamp and its
\* performance rows joined with the players table, or Null.
getLastMatch(st) ==
    IF st.matches = <<>> THEN {Null}
    ELSE {LET m == st.matches[k]
              rows == SelectSeq(st.match_players,
                         LAMBDA r : /\ r.match_id = m.id
                                    /\ st.players[r.player_auth] # Null)
          IN [match |-> m,
              players |-> [i \in 1 .. Len(rows) |->
                             [row |-> rows[i],
                              name |-> st.players[rows[i].player_auth].name]]] :
          k \in {i \in 1 .. Len(st.matches) :
                    \A j \in 1 .. Len(st.matches) :
                        st.matches[j].timestamp <= st.matches[i].timestamp}}

\* The commands a player types, with the name after !stats (<<>> for none);
\* "other" is any other text that starts with '!'.
ChatMessages ==
    {[cmd |-> c, arg |-> <<>>] : c \in {"me", "stats", "rank", "last", "other"}}
    \cup {[cmd |-> "stats", arg |-> name] : name \in QueryNames}

\* HaxballStatsTracker.handlePlayerChat: the replies it can give.
handlePlayerChat(st, auth, msg) ==
    IF msg.cmd = "me" \/ (msg.cmd = "stats" /\ msg.arg = <<>>)
    THEN {getPlayer(st.players, auth)}
    ELSE IF msg.cmd = "stats" THEN getPlayerByName(st.players, msg.arg)
    ELSE IF msg.cmd = "rank"
    THEN {[top |-> t] : t \in getTopPlayers(st.players, RANK_LIMIT)}
    ELSE IF msg.cmd = "last" THEN getLastMatch(st)
    ELSE {Null}

ChatCount == IF queryResult = Null THEN 0 ELSE queryResult.n

\* room.onPlayerChat for a message that starts with '!' from a connection
\* the room script has an auth for, and the handlePlayerChat call it makes.
\* The call reaches the tracker as a task of its own, between the handlers
\* of other events. queryResult keeps the store the command read.
PlayerChat(id, msg) ==
    /\ room[id].st = "in"
    /\ gameState.playerAuthMap[id] # Null
    /\ \E reply \in handlePlayerChat(Store, gameState.playerAuthMap[id].auth, msg) :
          queryResult' = [n |-> ChatCount + 1, msg |-> msg, reply |-> reply,
                          seen |-> Store]
    /\ attribution' = Null
    /\ UNCHANGED <<room, liveScores, clock, gameState, currentMatch, storeVars,
                   adminVars, nStarts, nAdvances, stopsSinceStart,
                   terminalResult, state, wsPath, startPc, stopPc, tracker,
                   dbOpen, schema, roomOpen, httpResult>>

\* The disc tables a tick is sampled with: nobody near the ball, one player
\* near, everybody near, and everybody near with the first player's disc missing.
NearDisc == [x |-> 24, y |-> 0]
FarDisc == [x |-> 15, y |-> 20]

TickInputs(ids) ==
    {[id \in Ids |-> IF id \in ids THEN FarDisc ELSE NoDisc]}
    \cup {[id \in Ids |-> IF id = n THEN NearDisc
                          ELSE IF id \in ids THEN FarDisc ELSE NoDisc] : n \in ids}
    \cup {[id \in Ids |-> IF id \in ids THEN NearDisc ELSE NoDisc]}
    \cup {[id \in Ids |-> IF id \in ids /\ id # Min(ids) THEN NearDisc ELSE NoDisc]}

InRoom == {id \in Ids : room[id].st = "in"}

GoalsSoFar == IF liveScores = Null THEN 0 ELSE liveScores.red + liveScores.blue

(***************************************************************************)
(* Spec: joins, leaves, team changes, games and the administrative         *)
(* operations, for the two persons of StoreCast; no touch is sampled.      *)
(***************************************************************************)
StoreCast == {1, 3}

Next ==
    \/ \E id \in StoreCast : PlayerJoin(id)
    \/ \E id \in StoreCast : PlayerLeave(id)
    \/ \E id \in StoreCast, team \in Teams : SetTeam(id, team)
    \/ nStarts < MaxStarts /\ GameStart
    \/ \E team \in Teams : GoalsSoFar < MaxGoals /\ TeamGoal(team)
    \/ TeamVictory
    \/ RoomGameEnds
    \/ GameStop
    \/ nAdminOps < MaxAdminOps /\ ClearStatsCall
    \/ nAdminOps < MaxAdminOps /\ DeleteTestPlayersCall
    \/ \E name \in QueryNames : nAdminOps < MaxAdminOps /\ DeletePlayerStatsCall(name)
    \/ \E ok \in BOOLEAN : ClearStatsResume(ok)
    \/ \E ok \in BOOLEAN : DeleteTestPlayersResume(ok)
    \/ \E ok \in BOOLEAN : DeletePlayerStatsResume(ok)

Spec == Init /\ [][Next]_vars

(***************************************************************************)
(* SpecTouch: touch sampling and goal attribution in one game. It starts   *)
(* from the states Spec-like runs reach when connections 1, 2 and 3 have   *)
(* joined and have been given sides: 1 and 2 red and 3 blue, or 1 and 3    *)
(* red and 2 blue.                                                         *)
(***************************************************************************)
TouchLineups == {<<1, 1, 2>>, <<1, 2, 1>>}

InitTouch ==
    /\ \E lineup \in TouchLineups :
          room = [id \in Ids |-> IF id \in {1, 2, 3}
                                  THEN [st |-> "in", team |-> lineup[id]]
                                  ELSE [st |-> "new", team |-> 0]]
    /\ liveScores = Null
    /\ clock = 0
    /\ gameState = onPlayerJoin(onPlayerJoin(onPlayerJoin(InitialGameState, 1), 2), 3)
    /\ currentMatch = Null
    /\ players = handlePlayerJoin(handlePlayerJoin(handlePlayerJoin(
                      EmptyStore.players, AuthOf(1), NameOf(1)),
                      AuthOf(2), NameOf(2)), AuthOf(3), NameOf(3))
    /\ matches = EmptyStore.matches
    /\ match_players = EmptyStore.match_players
    /\ seqMatches = EmptyStore.seq
    /\ backups = {}
    /\ adminOp = Null
    /\ adminResult = Null
    /\ attribution = Null
    /\ nStarts = 0
    /\ nAdvances = 0
    /\ nAdminOps = 0
    /\ stopsSinceStart = 0
    /\ terminalResult = Null
    /\ HostRunning

NextTouch ==
    \/ nStarts < MaxTouchStarts /\ GameStart
    \/ \E d \in ClockSteps : nAdvances < MaxAdvances /\ AdvanceClock(d)
    \/ \E ball \in BallPositions, discs \in TickInputs(InRoom) :
          GameTick(ball, discs)
    \/ \E team \in Teams : GoalsSoFar < MaxTouchGoals /\ TeamGoal(team)
    \/ gameState.isGameRunning /\ GameStop

SpecTouch == InitTouch /\ [][NextTouch]_vars

(***************************************************************************)
(* SpecRematch: games without goals one after the other with the lineups   *)
(* of SpecTouch, to follow the touch history from one game to the next.    *)
(***************************************************************************)
NextRematch ==
    \/ nStarts < MaxRematchStarts /\ GameStart
    \/ \E ball \in BallPositions, discs \in TickInputs(InRoom) :
          GameTick(ball, discs)
    \/ gameState.isGameRunning /\ GameStop

SpecRematch == InitTouch /\ [][NextRematch]_vars

(***************************************************************************)
(* SpecRank: getTopPlayers on every players table of three players with    *)
(* few goals and games, for every limit up to the size of the table.       *)
(***************************************************************************)
RankAuths == {"a1", "a2", "a3"}

RankRows ==
    {[NewPlayerRow(<<"B", "o">>) EXCEPT !.goals = g, !.games = n, !.draws = n] :
        g \in 0 .. MaxRankGoals, n \in 0 .. MaxRankGames}

InitRank ==
    /\ room = [id \in Ids |-> [st |-> "new", team |-> 0]]
    /\ liveScores = Null
    /\ clock = 0
    /\ gameState = InitialGameState
    /\ currentMatch = Null
    /\ players \in [RankAuths -> RankRows \cup {Null}]
    /\ matches = EmptyStore.matches
    /\ match_players = EmptyStore.match_players
    /\ seqMatches = EmptyStore.seq
    /\ backups = {}
    /\ adminOp = Null
    /\ adminResult = Null
    /\ attribution = Null
    /\ nStarts = 0
    /\ nAdvances = 0
    /\ nAdminOps = 0
    /\ stopsSinceStart = 0
    /\ terminalResult = Null
    /\ HostRunning

\* A call of getTopPlayers(limit) on the store.
TopPlayersQuery(limit) ==
    /\ \E t \in getTopPlayers(players, limit) :
          queryResult' = [n |-> ChatCount + 1, limit |-> limit, top |-> t,
                          seen |-> Store]
    /\ attribution' = Null
    /\ UNCHANGED <<room, liveScores, clock, gameState, currentMatch, storeVars,
                   adminVars, nStarts, nAdvances, stopsSinceStart,
                   terminalResult, state, wsPath, startPc, stopPc, tracker,
                   dbOpen, schema, roomOpen, httpResult>>

NextRank ==
    \E limit \in 0 .. Cardinality(RankAuths) :
        ChatCount < MaxRankQueries /\ TopPlayersQuery(limit)

SpecRank == InitRank /\ [][NextRank]_vars

(***************************************************************************)
(* SpecChat: chat commands between the joins, team changes, games and a    *)
(* purge of test players, for the two persons of StoreCast.                *)
(***************************************************************************)
NextChat ==
    \/ \E id \in StoreCast : PlayerJoin(id)
    \/ \E id \in StoreCast, team \in Teams : SetTeam(id, team)
    \/ nStarts < MaxStarts /\ GameStart
    \/ \E team \in Teams : GoalsSoFar < MaxGoals /\ TeamGoal(team)
    \/ GameStop
    \/ nAdminOps < MaxAdminOps /\ DeleteTestPlayersCall
    \/ \E ok \in BOOLEAN : DeleteTestPlayersResume(ok)
    \/ \E id \in StoreCast, msg \in ChatMessages :
          ChatCount < MaxChats /\ PlayerChat(id, msg)

SpecChat == Init /\ [][NextChat]_vars

(***************************************************************************)
(* SpecGoals: one game with the lineups of SpecTouch, at one instant, with *)
(* several goals, to follow the touch history from one goal to the next.   *)
(***************************************************************************)
NextGoals ==
    \/ nStarts < MaxTouchStarts /\ GameStart
    \/ \E ball \in BallPositions, discs \in TickInputs(InRoom) :
          GameTick(ball, discs)
    \/ \E team \in Teams : GoalsSoFar < MaxRunGoals /\ TeamGoal(team)

SpecGoals == InitTouch /\ [][NextGoals]_vars

(***************************************************************************)
(* SpecRestore: joins, leaves, team changes and games interleaved with     *)
(* clearStats, and restores once the room is stopped.                      *)
(***************************************************************************)
\* The room script calls the exposed tracker functions while the room is open
\* and the tracker's store handle is; a call on a closed handle throws and
\* writes nothing, and the page it came from is closed by the pending stop.
RoomEventsFlow == roomOpen /\ dbOpen

NextRestore ==
    \/ \E id \in StoreCast : RoomEventsFlow /\ PlayerJoin(id)
    \/ \E id \in StoreCast : RoomEventsFlow /\ PlayerLeave(id)
    \/ \E id \in StoreCast, team \in Teams : RoomEventsFlow /\ SetTeam(id, team)
    \/ nStarts < MaxStarts /\ RoomEventsFlow /\ GameStart
    \/ \E team \in Teams :
          GoalsSoFar < MaxGoals /\ RoomEventsFlow /\ TeamGoal(team)
    \/ RoomEventsFlow /\ GameStop
    \/ nAdminOps < MaxRestoreOps /\ getStatsTracker /\ ClearStatsCall
    \/ \E ok \in BOOLEAN : (ok => dbOpen) /\ ClearStatsResume(ok)
    \/ \E name \in BackupNames, io \in RestoreIO :
          nAdminOps < MaxRestoreOps /\ RestoreBackup(name, io)
    \/ StopCall
    \/ StopFinish

SpecRestore == Init /\ [][NextRestore]_vars

(***************************************************************************)
(* SpecServer: the host from a stopped process with a new store file:      *)
(* start() step by step with its failures, stop() at any moment, the room  *)
(* events of one connection once the room is open, clearStats and the      *)
(* restore route.                                                          *)
(***************************************************************************)
ServerCast == {1}

InitServer ==
    /\ room = [id \in Ids |-> [st |-> "new", team |-> 0]]
    /\ liveScores = Null
    /\ clock = 0
    /\ gameState = InitialGameState
    /\ currentMatch = Null
    /\ players = EmptyStore.players
    /\ matches = EmptyStore.matches
    /\ match_players = EmptyStore.match_players
    /\ seqMatches = EmptyStore.seq
    /\ backups = {}
    /\ adminOp = Null
    /\ adminResult = Null
    /\ attribution = Null
    /\ nStarts = 0
    /\ nAdvances = 0
    /\ nAdminOps = 0
    /\ stopsSinceStart = 0
    /\ terminalResult = Null
    /\ state = [status |-> "stopped", page |-> FALSE, statsTracker |-> FALSE]
    /\ wsPath \in BOOLEAN
    /\ startPc = "idle"
    /\ stopPc = "idle"
    /\ tracker = FALSE
    /\ dbOpen = FALSE
    /\ schema = FreshSchema
    /\ roomOpen = FALSE
    /\ httpResult = Null
    /\ queryResult = Null

NextServer ==
    \/ StartCall
    \/ \E ok \in BOOLEAN : StartConnect(ok)
    \/ \E ok \in BOOLEAN, failAt \in FailPoints : StartLoad(ok, failAt)
    \/ \E ok \in BOOLEAN : StartExpose(ok)
    \/ \E ok \in BOOLEAN : StartRoom(ok)
    \/ RoomLinkSet
    \/ StartAbort
    \/ StopCall
    \/ StopFinish
    \/ \E id \in ServerCast : RoomEventsFlow /\ PlayerJoin(id)
    \/ \E id \in ServerCast : RoomEventsFlow /\ PlayerLeave(id)
    \/ \E id \in ServerCast, team \in Teams :
          RoomEventsFlow /\ SetTeam(id, team)
    \/ nStarts < MaxStarts /\ RoomEventsFlow /\ GameStart
    \/ \E team \in Teams :
          GoalsSoFar < MaxGoals /\ RoomEventsFlow /\ TeamGoal(team)
    \/ RoomEventsFlow /\ GameStop
    \/ nAdminOps < MaxServerOps /\ getStatsTracker /\ ClearStatsCall
    \/ \E ok \in BOOLEAN : (ok => dbOpen) /\ ClearStatsResume(ok)
    \/ \E name \in BackupNames, io \in RestoreIO :
          nAdminOps < MaxServerOps /\ RestoreBackup(name, io)

SpecServer == InitServer /\ [][NextServer]_vars

(***************************************************************************)
(* SpecOffline: the host from a stopped process with a new store file,     *)
(* with one connection joining and leaving while the room is open, and two *)
(* administrative requests: a clearStats that leaves a backup and a        *)
(* restore once the room has been stopped.                                 *)
(***************************************************************************)
NextOffline ==
    \/ StartCall
    \/ \E ok \in BOOLEAN : StartConnect(ok)
    \/ \E ok \in BOOLEAN, failAt \in FailPoints : StartLoad(ok, failAt)
    \/ \E ok \in BOOLEAN : StartExpose(ok)
    \/ \E ok \in BOOLEAN : StartRoom(ok)
    \/ RoomLinkSet
    \/ StartAbort
    \/ StopCall
    \/ StopFinish
    \/ \E id \in ServerCast : RoomEventsFlow /\ PlayerJoin(id)
    \/ \E id \in ServerCast : RoomEventsFlow /\ PlayerLeave(id)
    \/ nAdminOps < MaxOfflineOps /\ getStatsTracker /\ ClearStatsCall
    \/ \E ok \in BOOLEAN : (ok => dbOpen) /\ ClearStatsResume(ok)
    \/ \E name \in BackupNames, io \in RestoreIO :
          nAdminOps < MaxOfflineOps /\ RestoreBackup(name, io)

SpecOffline == InitServer /\ [][NextOffline]_vars

(***************************************************************************)
(* SpecSeason: several games in a row between two persons. It starts from  *)
(* the state Spec reaches when connections 1 and 3 have joined and are red *)
(* and blue; connection 1 may change sides.                                *)
(***************************************************************************)
InitSeason ==
    /\ room = [id \in Ids |-> IF id = 1 THEN [st |-> "in", team |-> 1]
                               ELSE IF id = 3 THEN [st |-> "in", team |-> 2]
                               ELSE [st |-> "new", team |-> 0]]
    /\ liveScores = Null
    /\ clock = 0
    /\ gameState = onPlayerJoin(onPlayerJoin(InitialGameState, 1), 3)
    /\ currentMatch = Null
    /\ players = handlePlayerJoin(handlePlayerJoin(
                      EmptyStore.players, AuthOf(1), NameOf(1)),
                      AuthOf(3), NameOf(3))
    /\ matches = EmptyStore.matches
    /\ match_players = EmptyStore.match_players
    /\ seqMatches = EmptyStore.seq
    /\ backups = {}
    /\ adminOp = Null
    /\ adminResult = Null
    /\ attribution = Null
    /\ nStarts = 0
    /\ nAdvances = 0
    /\ nAdminOps = 0
    /\ stopsSinceStart = 0
    /\ terminalResult = Null
    /\ HostRunning

NextSeason ==
    \/ nStarts < MaxSeasonStarts /\ ~gameState.isGameRunning /\ GameStart
    \/ \E team \in Teams : GoalsSoFar < MaxSeasonGoals /\ TeamGoal(team)
    \/ TeamVictory
    \/ RoomGameEnds
    \/ gameState.isGameRunning /\ GameStop
    \/ \E team \in Teams : SetTeam(1, team)

SpecSeason == InitSeason /\ [][NextSeason]_vars

(***************************************************************************)
(* Properties.                                                             *)
(***************************************************************************)
StoredAuths == {a \in Auths : players[a] # Null}

\* A step that removes a player row, a match row or a performance row.
RowsDeleted ==
    \/ \E a \in Auths : players[a] # Null /\ players'[a] = Null
    \/ \E i \in 1..Len(matches) :
          \A j \in 1..Len(matches') : matches'[j].id # matches[i].id
    \/ Len(match_players') < Len(match_players)

\* A step in which a pending administrative operation finishes.
AdminFinishes == adminOp # Null /\ adminOp' = Null

\* The backup file the finishing operation wrote: the store as it is now.
BackupWritten ==
    \E b \in backups' : b.ts = clock /\ ~b.safety /\ b.content = Store

\* A Stop step of a running game.
StopOfRunningGame == gameState.isGameRunning /\ ~gameState'.isGameRunning

\* C1: every stored player has games = wins + losses + draws.
C1_GamesAreWinsLossesDraws ==
    \A a \in StoredAuths :
        players[a].games = players[a].wins + players[a].losses + players[a].draws

C1_Witness ==
    /\ adminResult # Null
    /\ \E a \in StoredAuths : players[a].games >= 1 /\ players[a].draws >= 1

\* C2: rows are deleted only by a step that has written a backup of the
\* store as it was, and that reports success; an administrative operation
\* whose backup was not written deletes nothing and reports the failure.
C2_BackupBeforeDelete ==
    [][/\ RowsDeleted => (AdminFinishes /\ BackupWritten /\ ~adminResult'.threw)
       /\ (AdminFinishes /\ ~BackupWritten) =>
              (adminResult'.threw /\ UNCHANGED storeVars)]_vars

C2_Witness ==
    /\ adminResult # Null
    /\ adminResult.threw
    /\ StoredAuths # {}
    /\ Len(matches) > 0
    /\ Len(match_players) > 0

\* C3 (as claimed): a Stop of a running game with a resolved score stores
\* the match row, one performance row per participant and the participants'
\* deltas, or stores nothing at all.
C3_CommitAllOrNothing ==
    [][(StopOfRunningGame /\ ResolveScores(gameState.finalScores, liveScores) # Null)
        => \/ UNCHANGED storeVars
           \/ /\ Len(matches') = Len(matches) + 1
              /\ seqMatches' = seqMatches + 1
              /\ Len(match_players') = Len(match_players)
                     + Len(TrackedIds(gameState, room, Teams))]_vars

\* C4: a Stop that follows a Stop with no Start in between changes no
\* stored row, no current match and nothing of the page's game state.
C4_SecondStopIsNoOp ==
    [][(stopsSinceStart = 1 /\ stopsSinceStart' = 2)
        => UNCHANGED <<storeVars, currentMatch, gameState>>]_vars

C4_Witness ==
    /\ stopsSinceStart = 2
    /\ Len(matches) = 1
    /\ Len(match_players) > 0

\* C5: a Stop of a running game with no captured result and no live score
\* writes nothing to the store.
C5_NoScoreNoCommit ==
    [][(StopOfRunningGame /\ gameState.finalScores = Null /\ liveScores = Null)
        => UNCHANGED storeVars]_vars

C5_Witness ==
    /\ ~gameState.isGameRunning
    /\ stopsSinceStart = 1
    /\ gameState.finalScores = Null
    /\ currentMatch # Null
    /\ Len(currentMatch.players) = 2
    /\ nAdminOps = 0
    /\ TrackedIds(gameState, room, Teams) # <<>>

TouchesSorted(lt) ==
    \A i \in 1..(Len(lt) - 1) : lt[i].timestamp <= lt[i + 1].timestamp

\* C6: the touch history never holds more than five entries, its timestamps
\* are non-decreasing from first to last, and an append to a full history
\* drops the oldest entry and keeps the other four in order.
C6_TouchHistoryBounded ==
    [][/\ Len(gameState'.lastTouches) <= 5
       /\ TouchesSorted(gameState'.lastTouches)
       /\ (/\ Len(gameState.lastTouches) = 5
           /\ gameState'.lastTouches # gameState.lastTouches
           /\ gameState'.lastTouches # <<>>)
           => /\ Len(gameState'.lastTouches) = 5
              /\ SubSeq(gameState'.lastTouches, 1, 4)
                     = Tail(gameState.lastTouches)]_vars

C6_Witness ==
    /\ Len(gameState.lastTouches) = 5
    /\ gameState.lastTouches[1].timestamp > 0
    /\ gameState.lastTouches[1].timestamp < gameState.lastTouches[5].timestamp

LastTouch == Last(gameState.lastTouches)

SecondLastTouch == gameState.lastTouches[Len(gameState.lastTouches) - 1]

\* C7: the scorer of a goal is the player of the most recent touch, and the
\* goal is an own goal exactly when that touch's side differs from the side
\* the goal event carries.
C7_ScorerIsLastTouch ==
    (attribution # Null /\ Len(gameState.lastTouches) > 0) =>
        /\ attribution.scorer # Null
        /\ attribution.scorer.auth = LastTouch.playerAuth
        /\ attribution.scorer.name = LastTouch.playerName
        /\ attribution.isOwnGoal = (LastTouch.playerTeam # attribution.team)

C7_Witness ==
    /\ attribution # Null
    /\ Len(gameState.lastTouches) > 1
    /\ attribution.isOwnGoal
    /\ gameState.lastTouches[1].playerAuth # LastTouch.playerAuth

C9_NoSelfAssist ==
    (attribution # Null /\ attribution.scorer # Null /\ attribution.assister # Null)
        => attribution.assister.auth # attribution.scorer.auth

\* The assist tallies of the page and of the tracker's current match.
AssistTallies ==
    <<[a \in Auths |-> IF gameState.matchGoals[a] # Null
                       THEN gameState.matchGoals[a].assists ELSE 0],
      IF currentMatch # Null
      THEN [a \in Auths |-> IF currentMatch.playerStats[a] # Null
                            THEN currentMatch.playerStats[a].assists ELSE 0]
      ELSE [a \in Auths |-> 0]>>

\* C10 (as claimed): a goal flagged as an own goal increments no assist
\* tally.
C10_NoAssistOnOwnGoal ==
    [][(attribution' # Null /\ attribution'.isOwnGoal)
        => AssistTallies' = AssistTallies]_vars

\* The goal tallies of the page and of the tracker's current match.
GoalTallies ==
    <<[a \in Auths |-> IF gameState.matchGoals[a] # Null
                       THEN gameState.matchGoals[a].goals ELSE 0],
      IF currentMatch # Null
      THEN [a \in Auths |-> IF currentMatch.playerStats[a] # Null
                            THEN currentMatch.playerStats[a].goals ELSE 0]
      ELSE [a \in Auths |-> 0]>>

C12_EmptyHistoryNoAttribution ==
    [][(attribution' # Null /\ gameState.lastTouches = <<>>)
        => /\ attribution'.scorer = Null
           /\ attribution'.assister = Null
           /\ UNCHANGED storeVars
           /\ gameState'.matchGoals = gameState.matchGoals
           /\ currentMatch' = currentMatch]_vars

C12_Witness ==
    /\ attribution # Null
    /\ gameState.lastTouches = <<>>
    /\ attribution.scorer = Null
    /\ currentMatch # Null
    /\ Len(currentMatch.players) > 0

\* A step that commits a match: saveMatch has inserted a match row.
CommitStep == Len(matches') = Len(matches) + 1

\* The connections handed to the commit: in a team and with an auth at Stop.
ParticipantIds ==
    {id \in Ids : /\ room[id].st = "in"
                  /\ room[id].team \in Teams
                  /\ gameState.playerAuthMap[id] # Null}

\* What a step adds to a field of a stored player's row.
Delta(a, f) == players'[a][f] - players[a][f]

WonBy(team, m) ==
    IF team = 1 THEN m.score_red > m.score_blue ELSE m.score_blue > m.score_red

LostBy(team, m) ==
    IF team = 1 THEN m.score_red < m.score_blue ELSE m.score_blue < m.score_red

Conceded(team, m) == IF team = 1 THEN m.score_blue ELSE m.score_red

One(b) == IF b THEN 1 ELSE 0

\* C13 (as claimed): a commit adds exactly 1 to every participant's games and
\* exactly 1 to one of wins, losses and draws: wins on the side with the
\* higher score, losses on the side with the lower score, draws on both
\* sides when the scores are equal.
C13_OneGameOneOutcome ==
    [][CommitStep =>
        \A id \in ParticipantIds :
            LET a == gameState.playerAuthMap[id].auth
                t == room[id].team
                m == matches'[Len(matches')]
            IN /\ Delta(a, "games") = 1
               /\ Delta(a, "wins") = One(WonBy(t, m))
               /\ Delta(a, "losses") = One(LostBy(t, m))
               /\ Delta(a, "draws") = One(m.score_red = m.score_blue)]_vars

\* C14 (as claimed): a commit adds 1 to a participant's clean_sheets exactly
\* when the opponent's final score is zero and the participant's side has
\* won, and leaves clean_sheets as it was otherwise.
C14_CleanSheetNeedsWin ==
    [][CommitStep =>
        \A id \in ParticipantIds :
            LET a == gameState.playerAuthMap[id].auth
                t == room[id].team
                m == matches'[Len(matches')]
            IN Delta(a, "clean_sheets")
                   = One(Conceded(t, m) = 0 /\ WonBy(t, m))]_vars

\* C15 (as claimed): a commit with final score 0-0 adds 1 to the clean_sheets
\* and 1 to the draws of the participants of both sides.
C15_GoallessDrawIsCleanSheet ==
    [][(/\ CommitStep
        /\ matches'[Len(matches')].score_red = 0
        /\ matches'[Len(matches')].score_blue = 0)
        => \A id \in ParticipantIds :
              LET a == gameState.playerAuthMap[id].auth
              IN /\ Delta(a, "clean_sheets") = 1
                 /\ Delta(a, "draws") = 1]_vars

\* The persons of the start snapshot who have no connection in the room.
SnapshotLeavers ==
    IF currentMatch = Null THEN {}
    ELSE {i \in 1..Len(currentMatch.players) :
             \A id \in Ids : room[id].st = "in" => AuthOf(id) # currentMatch.players[i].auth}

\* C17 (as claimed): a person of the start snapshot who has left the room
\* before Stop gets, at the commit, games + 1, the outcome of the side of the
\* snapshot, the goals and assists tallied in the match, and a performance
\* row of the committed match.
C17_LeaverStillScored ==
    [][CommitStep =>
        \A i \in SnapshotLeavers :
            LET p == currentMatch.players[i]
                m == matches'[Len(matches')]
            IN players[p.auth] # Null =>
                 /\ Delta(p.auth, "games") = 1
                 /\ Delta(p.auth, "wins") = One(WonBy(p.team, m))
                 /\ Delta(p.auth, "losses") = One(LostBy(p.team, m))
                 /\ Delta(p.auth, "goals") = currentMatch.playerStats[p.auth].goals
                 /\ Delta(p.auth, "assists") = currentMatch.playerStats[p.auth].assists
                 /\ \E k \in 1..Len(match_players') :
                       /\ match_players'[k].match_id = m.id
                       /\ match_players'[k].player_auth = p.auth]_vars

\* C18: the outcome a commit gives a participant, and the side of the
\* participant's performance row, are those of the team the participant is
\* on at Stop, whatever team the participant started the match on.
C18_TeamAtStopDecides ==
    [][CommitStep =>
        \A id \in ParticipantIds :
            LET a == gameState.playerAuthMap[id].auth
                t == room[id].team
                m == matches'[Len(matches')]
            IN /\ (Delta(a, "wins") = 1) <=> WonBy(t, m)
               /\ (Delta(a, "losses") = 1) <=> LostBy(t, m)
               /\ (Delta(a, "draws") = 1) <=> (~WonBy(t, m) /\ ~LostBy(t, m))
               /\ \E k \in 1..Len(match_players') :
                     /\ match_players'[k].match_id = m.id
                     /\ match_players'[k].player_auth = a
                     /\ match_players'[k].team = t]_vars

\* A committed match won by a player who started it on the losing side.
C18_Witness ==
    /\ Len(matches) = 1
    /\ \E a \in StoredAuths, k \in 1..Len(match_players) :
          /\ match_players[k].player_auth = a
          /\ gameState.matchGoals[a] # Null
          /\ gameState.matchGoals[a].team # match_players[k].team
          /\ WonBy(match_players[k].team, matches[1])
          /\ players[a].wins = 1
          /\ players[a].losses = 0

\* The performance rows of player a in match m.
RowsIn(a, m) ==
    {i \in 1 .. Len(match_players) :
        /\ match_players[i].player_auth = a
        /\ match_players[i].match_id = m.id}

\* The committed matches player a has a performance row in, oldest first.
MatchesOf(a) == SelectSeq(matches, LAMBDA m : RowsIn(a, m) # {})

\* Player a was on the winning side of match m.
MatchWonBy(a, m) == \A i \in RowsIn(a, m) : WonBy(match_players[i].team, m)

\* The number of matches won at the end of ms without a loss or draw between.
RECURSIVE TrailingWins(_, _)
TrailingWins(a, ms) ==
    IF ms = <<>> THEN 0
    ELSE IF MatchWonBy(a, ms[Len(ms)])
         THEN 1 + TrailingWins(a, SubSeq(ms, 1, Len(ms) - 1))
         ELSE 0

\* The largest value TrailingWins has had while ms was growing.
BestRun(a, ms) ==
    LET runs == {TrailingWins(a, SubSeq(ms, 1, n)) : n \in 0 .. Len(ms)}
    IN CHOOSE x \in runs : \A y \in runs : y <= x

\* The persons with a performance row in the match committed last.
LastMatchAuths == {a \in Auths : RowsIn(a, matches[Len(matches)]) # {}}

StreaksFollowResults(a) ==
    /\ players[a] # Null
    /\ players[a].current_streak = TrailingWins(a, MatchesOf(a))
    /\ players[a].best_streak = BestRun(a, MatchesOf(a))

\* C16 (as claimed): after every committed match a participant's
\* current_streak is the number of most recent committed matches of that
\* player that were won in a row (0 after a loss or a draw), and best_streak
\* is the largest value current_streak has had over the player's committed
\* matches.
C16_StreaksFollowResults ==
    [][CommitStep => \A a \in LastMatchAuths' : StreaksFollowResults(a)']_vars

\* C19 (as claimed): when onTeamVictory has been called in the running game,
\* the score committed at Stop is the score it was called with, whatever
\* goal events and live scores follow it before Stop.
C19_TerminalResultIsCommitted ==
    [][(CommitStep /\ terminalResult # Null) =>
        LET m == matches'[Len(matches')]
        IN /\ m.score_red = terminalResult.red
           /\ m.score_blue = terminalResult.blue]_vars

\* A step in which clearStats finishes and reports success.
ClearStatsSucceeds ==
    /\ AdminFinishes
    /\ adminOp.op = "clearStats"
    /\ ~adminResult'.threw

\* A step in which a restore of backup file b succeeds.
Restores(b) ==
    /\ adminOp = Null
    /\ adminOp' = Null
    /\ nAdminOps' = nAdminOps + 1
    /\ httpResult'.code = 200
    /\ adminResult'.op = "restoreBackup"
    /\ ~adminResult'.threw
    /\ adminResult'.value.restoredFrom = [ts |-> b.ts, safety |-> b.safety]

StartsWithTestPrefix(name) ==
    /\ Len(name) >= 7
    /\ SubSeq(name, 1, 7) = <<"_", "_", "_", "t", "e", "s", "t">>

\* A step in which deleteTestPlayers finishes and reports success.
DeleteTestPlayersSucceeds ==
    /\ AdminFinishes
    /\ adminOp.op = "deleteTestPlayers"
    /\ ~adminResult'.threw

\* C28 (as claimed): deleteTestPlayers deletes exactly the players whose name
\* starts with the literal prefix ___test, returns their number and leaves
\* every other player row as it was.
C28_OnlyTestPrefixDeleted ==
    [][DeleteTestPlayersSucceeds =>
        LET test == {a \in StoredAuths : StartsWithTestPrefix(players[a].name)}
        IN /\ \A a \in test : players'[a] = Null
           /\ \A a \in Auths \ test : players'[a] = players[a]
           /\ adminResult'.value.count = Cardinality(test)]_vars

\* C29: two adjacent entries of the touch history are by different players,
\* or the later one is at least the debounce interval after the earlier one.
C29_AdjacentTouchesDebounced ==
    \A i \in 1 .. (Len(gameState.lastTouches) - 1) :
        \/ gameState.lastTouches[i].playerId # gameState.lastTouches[i + 1].playerId
        \/ gameState.lastTouches[i + 1].timestamp - gameState.lastTouches[i].timestamp
               >= TOUCH_DEBOUNCE

\* The same player has two entries in a row, and a later sample of that
\* player within the debounce interval was not recorded.
C29_Witness ==
    /\ Len(gameState.lastTouches) = 2
    /\ gameState.lastTouches[1].playerId = gameState.lastTouches[2].playerId
    /\ clock = gameState.lastTouches[2].timestamp
    /\ nAdvances = MaxAdvances

\* A step in which start() makes the tracker and runs initialize on the
\* store.
InitializeRuns == startPc = "load" /\ startPc' \in {"expose", "abort"}

\* C24: the stored version never decreases; initialize changes it only from
\* below 1 to 1, on a store without any statement of migration 1 done and
\* together with all statements of migration 1; on a store at version 1 it
\* changes nothing; and when it returns, the store is at version 1 with all
\* statements done.
C24_MigrationsInOrder ==
    [][/\ schema'.version >= schema.version
       /\ InitializeRuns =>
            /\ schema'.version # schema.version =>
                  schema = FreshSchema /\ schema' = MigratedSchema
            /\ schema.version >= SchemaVersion => schema' = schema
            /\ schema'.stmts >= schema.stmts
            /\ startPc' = "expose" => schema' = MigratedSchema]_vars

\* A second initialisation has run on the store the first one migrated.
C24_Witness ==
    /\ startPc = "expose"
    /\ tracker
    /\ schema = MigratedSchema

\* C25: the room is open to events, or the status 'running', only with the
\* store migrated, and every step that changes what the room script or the
\* tracker hold starts from a migrated store.
C25_NoEventBeforeMigration ==
    /\ [](roomOpen \/ state.status = "running" => schema = MigratedSchema)
    /\ [][(gameState' # gameState /\ gameState' # InitialGameState)
            \/ (currentMatch' # currentMatch /\ currentMatch' # Null)
            \/ Store' # Store
          => schema = MigratedSchema]_vars

\* A start whose migration failed has ended with the room stopped.
C25_Witness ==
    /\ schema.version = 0
    /\ schema.stmts > 0
    /\ state.status = "stopped"
    /\ startPc = "idle"
    /\ stopPc = "idle"

\* A step in which POST /restore-backup is answered.
RestoreRequest ==
    /\ adminOp = Null
    /\ adminOp' = Null
    /\ nAdminOps' = nAdminOps + 1

\* C21: a restore request runs restoreBackup only when the status is
\* 'stopped'; in every other status it is answered with 400 and the store
\* and the backups stay as they are.
C21_RestoreOnlyWhenStopped ==
    [][RestoreRequest =>
          /\ httpResult'.executed => state.status = "stopped"
          /\ state.status # "stopped" =>
                /\ httpResult' = Refused
                /\ Store' = Store
                /\ backups' = backups
                /\ dbOpen' = dbOpen]_vars

\* A request was refused while the room, with a tracker, was being stopped.
C21_Witness ==
    /\ httpResult = Refused
    /\ tracker
    /\ state.status = "stopping"

\* A restore request that wrote the backup over the store file.
RestoreOverwrites == RestoreRequest /\ httpResult'.overwrote

\* The backups hold a safety file of this moment with the store as it was
\* before the step.
SafetyCopyOfPreRestore ==
    \E b \in backups' : b.safety /\ b.ts = clock /\ b.content = Store

\* C22, as claimed: every restore that overwrites the store file has written
\* a safety copy of the content it overwrites.
C22_SafetyCopyBeforeOverwrite ==
    [][RestoreOverwrites => SafetyCopyOfPreRestore]_vars

\* C22, amended: every restore that overwrites the store file has tried the
\* safety copy first: when the copy succeeded, the backups hold the content
\* as it was before the overwrite; when it failed, the backups are as they
\* were and the store file is overwritten all the same.
C22_SafetyCopyAttempted ==
    [][RestoreOverwrites =>
          IF httpResult'.io.safetyOk THEN SafetyCopyOfPreRestore
          ELSE backups' = backups]_vars

\* The store file was overwritten after a failed safety copy, and no safety
\* file exists.
C22_Witness ==
    /\ httpResult # Null
    /\ httpResult.overwrote
    /\ ~httpResult.io.safetyOk
    /\ \A b \in backups : ~b.safety

\* C23: a restore that meets an invalid name, a missing backup, a failed copy
\* or a failed re-open is answered with the error, the store has an open
\* handle afterwards whenever the store file can be opened, and after an
\* invalid name or a missing backup the store and the backups are unchanged.
C23_RestoreFailureReopens ==
    [][RestoreRequest /\ httpResult'.executed =>
          LET name == httpResult'.name
              io == httpResult'.io
              bad == ~ValidBackupName(name) \/ BackupFile(backups, name) = Null
          IN /\ bad \/ ~io.copyOk \/ ~io.reopenOk =>
                   /\ httpResult'.code = 500
                   /\ adminResult'.threw
                   /\ io.retryOk => dbOpen'
             /\ bad => Store' = Store /\ backups' = backups]_vars

\* The copy of an existing backup over the store file failed and the store
\* was opened again.
C23_Witness ==
    /\ httpResult # Null
    /\ httpResult.executed
    /\ httpResult.threw
    /\ ValidBackupName(httpResult.name)
    /\ BackupFile(backups, httpResult.name) # Null
    /\ ~httpResult.io.copyOk
    /\ dbOpen

\* C30, as claimed: while no match is running the touch history is empty.
C30_NoTouchesWhileIdle ==
    ~gameState.isGameRunning => gameState.lastTouches = <<>>

\* C30, amended: a match starts with an empty touch history, and while no
\* match is running the history does not change: what the last match left
\* stays until the next start, and no touch of one match is in a later one.
C30_TouchesClearedAtStart ==
    [][/\ ~gameState.isGameRunning /\ gameState'.isGameRunning =>
            gameState'.lastTouches = <<>>
       /\ ~gameState.isGameRunning /\ ~gameState'.isGameRunning =>
            gameState'.lastTouches = gameState.lastTouches]_vars

\* A match with touches has been stopped and its touches are still held.
C30_Witness ==
    /\ ~gameState.isGameRunning
    /\ gameState.lastTouches # <<>>
    /\ stopsSinceStart > 0

\* C27: the result of getTopPlayers(limit) has at most limit rows, all of
\* them different rows of the table; each row stands before every later
\* row with fewer goals or with equal goals and no fewer games; and no row
\* left out has more goals than a row in the result.
C27_TopPlayersRanked ==
    queryResult # Null =>
        LET t == queryResult.top
            tbl == queryResult.seen.players
            inside == {t[i].auth : i \in 1 .. Len(t)}
        IN /\ Len(t) <= queryResult.limit
           /\ Cardinality(inside) = Len(t)
           /\ \A i \in 1 .. Len(t) :
                 t[i].auth \in DOMAIN tbl /\ t[i].row = tbl[t[i].auth]
           /\ \A i, j \in 1 .. Len(t) :
                 i < j => \/ t[i].row.goals > t[j].row.goals
                          \/ /\ t[i].row.goals = t[j].row.goals
                             /\ t[i].row.games <= t[j].row.games
           /\ \A a \in DOMAIN tbl, i \in 1 .. Len(t) :
                 (tbl[a] # Null /\ a \notin inside) =>
                     tbl[a].goals <= t[i].row.goals

\* Two of three players were asked for: the two in the result have equal
\* goals and different games, the one left out has fewer goals.
C27_Witness ==
    /\ queryResult # Null
    /\ queryResult.limit = 2
    /\ Len(queryResult.top) = 2
    /\ queryResult.top[1].row.goals = queryResult.top[2].row.goals
    /\ queryResult.top[1].row.games < queryResult.top[2].row.games
    /\ \E a \in RankAuths :
          /\ players[a] # Null
          /\ \A i \in 1 .. 2 : queryResult.top[i].auth # a
          /\ players[a].goals < queryResult.top[2].row.goals

\* In store st every match commit is there as a whole: a player's games are
\* as many as the player's performance rows, and every performance row
\* belongs to a stored match.
WholeCommits(st) ==
    /\ \A a \in Auths :
          st.players[a] # Null =>
              st.players[a].games =
                  Cardinality({i \in 1 .. Len(st.match_players) :
                                  st.match_players[i].player_auth = a})
    /\ \A i \in 1 .. Len(st.match_players) :
          \E k \in 1 .. Len(st.matches) :
              st.matches[k].id = st.match_players[i].match_id

\* C26: the store a chat command reads holds every match commit as a whole.
C26_ChatSeesWholeCommits ==
    queryResult # Null => WholeCommits(queryResult.seen)

\* A step in which deletePlayerStats resolves.
DeletePlayerStatsSucceeds ==
    /\ AdminFinishes
    /\ adminOp.op = "deletePlayerStats"
    /\ ~adminResult'.threw

\* Player a has a performance row in match m and nobody else has.
OnlyParticipant(a, m) ==
    /\ RowsIn(a, m) # {}
    /\ \A i \in 1 .. Len(match_players) :
          match_players[i].match_id = m.id => match_players[i].player_auth = a

\* C31 (as claimed): deletePlayerStats(name) removes the row of a player
\* whose name equals name without regard to case, that player's performance
\* rows and the matches in which that player was the only participant, and
\* nothing else; when no player has the name it removes nothing and returns
\* null.
C31_DeletesOnlyThatPlayer ==
    [][DeletePlayerStatsSucceeds =>
          IF AuthsNamed(players, adminOp.name) = {}
          THEN UNCHANGED storeVars /\ adminResult'.value = Null
          ELSE \E a \in AuthsNamed(players, adminOp.name) :
                  /\ players' = [players EXCEPT ![a] = Null]
                  /\ match_players' = SelectSeq(match_players,
                                         LAMBDA r : r.player_auth # a)
                  /\ matches' = SelectSeq(matches,
                                    LAMBDA m : ~OnlyParticipant(a, m))]_vars

\* C33: every stored player has best_streak >= current_streak >= 0.
C33_BestStreakBoundsCurrent ==
    \A a \in StoredAuths :
        /\ players[a].current_streak >= 0
        /\ players[a].best_streak >= players[a].current_streak

\* A player has won two matches in a row and then not won the third: the
\* best streak stays 2 and the current streak is 0.
C33_Witness ==
    \E a \in StoredAuths :
        /\ players[a].best_streak = 2
        /\ players[a].current_streak = 0
        /\ players[a].games = 3

\* C34: a goal event leaves the touch history as it is, and the scorer it
\* reports is the player of the last entry of that history.
C34_GoalKeepsTouches ==
    [][attribution' # Null =>
          /\ gameState'.lastTouches = gameState.lastTouches
          /\ gameState.lastTouches # <<>> =>
                /\ attribution'.scorer # Null
                /\ attribution'.scorer.auth
                       = Last(gameState'.lastTouches).playerAuth]_vars

\* The second goal of a match has been attributed with the one touch the
\* match has had.
C34_Witness ==
    /\ attribution # Null
    /\ attribution.scorer # Null
    /\ GoalsSoFar = 2
    /\ Len(gameState.lastTouches) = 1


(***************************************************************************)
(* C35: after every event the room script's isGameRunning flag is true     *)
(* exactly when the tracker holds a currentMatch, also after a Stop whose  *)
(* commit was aborted because no score could be resolved.                  *)
(***************************************************************************)
C35_RunningIffCurrentMatch ==
    gameState.isGameRunning <=> (currentMatch # Null)


\* The positions of start() between its status guard and its return or
\* throw; at "link" start() has returned and the room link is awaited.
StartInFlight == startPc \in {"connect", "load", "expose", "room", "abort"}

(***************************************************************************)
(* C32: at most one start() is past its status guard and not finished.     *)
(* The guard is the only thing that keeps a second start() out, so while   *)
(* one start() is in flight the status is not 'stopped', whatever stop()   *)
(* does in between.                                                        *)
(***************************************************************************)
C32_OneStartInFlight ==
    StartInFlight => state.status # "stopped"

(***************************************************************************)
(* C36: whenever the status is 'stopped', the page and the stats tracker   *)
(* of the state are null (room_url and browser are set and reset together  *)
(* with the page), for every interleaving of start(), stop(), the          *)
(* page-close callback and the room-link callback.                         *)
(***************************************************************************)
C36_StoppedHoldsNothing ==
    state.status = "stopped" => ~state.page /\ ~state.statsTracker


\* StatsDatabase.listBackups: the files of the backups directory whose name
\* starts with 'stats_backup_' and ends with '.db'. Both name shapes the
\* code writes, stats_backup_<ts>.db and stats_backup_<ts>_safety.db, pass
\* this filter; the entry carries the file name.
listBackups(bks) == {[ts |-> b.ts, safety |-> b.safety] : b \in bks}

(***************************************************************************)
(* C37: every backup that listBackups returns has a file name that the     *)
(* name check of restoreBackup accepts, the safety backups that            *)
(* restoreBackup writes included.                                          *)
(***************************************************************************)
C37_ListedBackupsRestorable ==
    \A name \in listBackups(backups) : ValidBackupName(name)


RECURSIVE SideGoalsFrom(_, _, _)
SideGoalsFrom(m, team, i) ==
    IF i > Len(match_players) THEN 0
    ELSE (IF match_players[i].match_id = m.id /\ match_players[i].team = team
          THEN match_players[i].goals ELSE 0)
         + SideGoalsFrom(m, team, i + 1)

(***************************************************************************)
(* C39: in every committed match, for each side, the goals of that side's  *)
(* performance rows add up to at most the side's final score.              *)
(***************************************************************************)
C39_RowGoalsWithinScore ==
    \A k \in 1 .. Len(matches) :
        /\ SideGoalsFrom(matches[k], 1, 1) <= matches[k].score_red
        /\ SideGoalsFrom(matches[k], 2, 1) <= matches[k].score_blue


(***************************************************************************)
(* C40: every performance row references a stored match and a stored       *)
(* player, also when clearStats, deleteTestPlayers or deletePlayerStats    *)
(* run between Start and Stop.                                             *)
(***************************************************************************)
C40_RowsReferenceExisting ==
    \A i \in 1 .. Len(match_players) :
        /\ players[match_players[i].player_auth] # Null
        /\ \E k \in 1 .. Len(matches) : matches[k].id = match_players[i].match_id

\* A player was deleted by name before the match was committed (the backup
\* of the deletion holds the player and no match) and is gone, and the store
\* holds the committed match with the performance row of the other player.
C40_Witness ==
    /\ adminResult # Null
    /\ adminResult.op = "deletePlayerStats"
    /\ ~adminResult.threw
    /\ adminResult.value # Null
    /\ \E a \in Auths, b \in backups :
          /\ players[a] = Null
          /\ b.content.players[a] # Null
          /\ b.content.matches = <<>>
    /\ Len(matches) = 1
    /\ Len(match_players) = 1

====
